---- MODULE Spec2Model ----
(***************************************************************************)
(* Instagram Auto Poster Pro: the schedule registry (scheduled_posts.json), *)
(* the upload history (upload_history.json), the scheduled-posts worker,    *)
(* the immediate uploader and the HTTP routes that drive them.              *)
(* Sources: src/uploader.py, src/instagram_webui.py, src/encryption.py.     *)
(***************************************************************************)
EXTENDS Integers, Sequences, FiniteSets, TLC

\* ------------------------------------------------------------------ bounds
\* The clock runs over 0..MaxTime; scheduled times are drawn from the same range.
MaxTime == 1
\* How many requests are issued in one behaviour of Spec and of SpecStop.
MaxRequests == 2
\* How many requests are issued in one behaviour of SpecReg.
MaxRegistryRequests == 4
\* The longest document the document store is given.
MaxDocLen == 2
\* How many save and load calls are made in one behaviour of SpecDoc.
MaxDocOps == 2

\* File names of the images directory that requests may name.
Files == {"a.png", "b.png"}
Times == 0..MaxTime
\* HTTP request threads (the server handles each request on its own thread).
HttpThreads == {"h1", "h2"}
\* Slots for scheduled-posts worker threads created by threading.Thread(...).
WorkerThreads == {"w1", "w2"}
NoThread == "free"

VARIABLES
    registry,                 \* content of scheduled_posts.json
    history,                  \* content of upload_history.json
    images,                   \* files present in UPLOAD_FOLDER ('images')
    uploaded,                 \* files present in the uploaded directory
    stop_event,               \* threading.Event stop_event
    scheduled_posts_running,  \* global flag of the scheduled worker
    upload_running,           \* upload_status["running"]
    schedule_lock,            \* holder of schedule_lock, or NoThread
    now,                      \* wall clock
    http,                     \* per HTTP thread: the request in progress
    wk,                       \* per worker slot: run_scheduled_posts_thread frame
    up,                       \* the run_uploader_thread frame
    budget,                   \* requests still to come
    serial,                   \* the registry with every write applied in one piece, in save order
    removed,                  \* a cancel_schedule request has saved
    clears,                   \* consecutive clear_all_scheduled requests that have saved
    attempts,                 \* per file: publish attempts by the scheduled worker since it was last (re)scheduled
    late,                     \* per thread: upload calls begun while stop_event was set
    upload_message,           \* upload_status["message"]
    disk,                     \* content of the document file served by the document store
    key,                      \* the key get_encryption_key() resolves to in this process
    saver,                    \* the thread inside save_upload_history / save_scheduled_posts
    loader,                   \* the thread inside decrypt_upload_history / decrypt_scheduled_posts
    status_lock,              \* holder of status_lock, or NoThread
    lk                        \* per thread: the code path it runs and the lock or document statement it is at

vars == <<registry, history, images, uploaded, stop_event, scheduled_posts_running,
          upload_running, schedule_lock, now, http, wk, up, budget, serial, removed,
          clears, attempts, late, upload_message, disk, key, saver, loader,
          status_lock, lk>>

\* The document store's own state.
docvars == <<disk, key, saver, loader>>

lockvars == <<status_lock, lk>>

\* The state of the routes and the workers, but for the count of requests to come.
appvars == <<registry, history, images, uploaded, stop_event, scheduled_posts_running,
             upload_running, schedule_lock, now, http, wk, up, serial, removed,
             clears, attempts, late, upload_message, status_lock, lk>>

\* ------------------------------------------------- uploader.py: the registry
Filenames(posts) == {posts[i].filename : i \in 1..Len(posts)}

\* The position of the first entry with this filename (the add loop returns at the first match).
FirstIndex(posts, filename) ==
    CHOOSE i \in 1..Len(posts) :
        /\ posts[i].filename = filename
        /\ \A j \in 1..(i - 1) : posts[j].filename # filename

\* The id taken from the length without the + 1 of L101.
add_scheduled_post_id(posts, filename, scheduled_time) ==
    IF filename \in Filenames(posts)
    THEN [posts EXCEPT ![FirstIndex(posts, filename)] =
             [@ EXCEPT !.scheduled_time = scheduled_time, !.status = "pending"]]
    ELSE Append(posts, [filename |-> filename, scheduled_time |-> scheduled_time,
                        status |-> "pending", id |-> Len(posts)])

\* The append of L97-104 without the search of L89-94.
add_scheduled_post_dup(posts, filename, scheduled_time) ==
    Append(posts, [filename |-> filename, scheduled_time |-> scheduled_time,
                   status |-> "pending", id |-> Len(posts) + 1])

add_scheduled_post(posts, filename, scheduled_time) ==
    IF filename \in Filenames(posts)
    THEN [posts EXCEPT ![FirstIndex(posts, filename)] =
             [@ EXCEPT !.scheduled_time = scheduled_time, !.status = "pending"]]
    ELSE Append(posts, [filename |-> filename, scheduled_time |-> scheduled_time,
                        status |-> "pending", id |-> Len(posts) + 1])

\* The filter of L109 with the comparison turned round.
remove_scheduled_post_keep(posts, filename) ==
    SelectSeq(posts, LAMBDA post : post.filename = filename)

remove_scheduled_post(posts, filename) ==
    SelectSeq(posts, LAMBDA post : post.filename # filename)

\* A clear that drops the first entry only.
clear_all_scheduled_posts_first(posts) ==
    IF posts = <<>> THEN <<>> ELSE Tail(posts)

\* clear_all_scheduled_posts saves [] whatever the file holds.
clear_all_scheduled_posts(posts) == <<>>

\* ---------------------------------------------- uploader.py: the history ledger
\* An entry whose id is the count without the + 1 of L62.
history_entry_count(hist, filename, status) ==
    [filename |-> filename, status |-> status, id |-> Len(hist)]

\* An entry that does not carry the status it is given.
history_entry_unknown(hist, filename, status) ==
    [filename |-> filename, status |-> "unknown", id |-> Len(hist) + 1]

\* add_to_upload_history builds the entry from the history it has loaded.
history_entry(hist, filename, status) ==
    [filename |-> filename, status |-> status, id |-> Len(hist) + 1]

\* ------------------------------------------------------------- thread frames
HttpIdle == [pc |-> "idle", route |-> "none", filename |-> "none",
             scheduled_time |-> 0, local |-> <<>>]

WorkerNone == [pc |-> "none", posts |-> <<>>, idx |-> 0, cur |-> 0,
               processed |-> 0, k |-> 0, ok |-> FALSE, hist |-> <<>>]

\* log is the last line the run has written to the log file that tells how it
\* ended; calls, appended and waited count the run's upload calls, its history
\* entries and whether it has entered the delay of L182-192. delay is the value
\* drawn at L182 and slept is time.time() - start_time of L187-188, in seconds.
UploaderNone == [pc |-> "none", files |-> <<>>, i |-> 0, ok |-> FALSE, hist |-> <<>>,
                 log |-> "none", calls |-> 0, appended |-> 0, waited |-> FALSE,
                 delay |-> 0, slept |-> 0]

\* A slot is free when no thread occupies it.
FreeSlots == {w \in WorkerThreads : wk[w].pc = "none"}

\* threading.Thread(target=run_scheduled_posts_thread).start()
StartWorker(frames) ==
    [frames EXCEPT ![IF "w1" \in FreeSlots THEN "w1" ELSE "w2"] =
                       [WorkerNone EXCEPT !.pc = "L207"]]

\* A `with schedule_lock:` that does not wait.
CanAcquireUnguarded(t) == TRUE

\* `with schedule_lock:` is entered only while no other thread holds the lock.
CanAcquire(t) == schedule_lock = NoThread

Min(a, b) == IF a <= b THEN a ELSE b

\* ------------------------------------------- instagram_webui.py: the routes
\* POST /schedule_posts with one post, L545-570, down to the load inside
\* add_scheduled_post (uploader.py L86): the inputs are valid and the lock is taken.
schedule_posts_load(h, filename, scheduled_time) ==
    /\ http[h].pc = "idle"
    /\ budget > 0
    /\ CanAcquire(h)
    /\ schedule_lock' = h
    /\ http' = [http EXCEPT ![h] = [pc |-> "locked", route |-> "schedule_posts",
                                    filename |-> filename,
                                    scheduled_time |-> scheduled_time,
                                    local |-> registry]]
    /\ budget' = budget - 1
    /\ UNCHANGED <<registry, history, images, uploaded, stop_event,
                   scheduled_posts_running, upload_running, now, wk, up, serial,
                   removed, clears, attempts, late>>
    /\ UNCHANGED <<upload_message, docvars, lockvars>>

\* add_scheduled_post, uploader.py L88-104: update or append, then save.
schedule_posts_save(h) ==
    /\ http[h].pc = "locked"
    /\ http[h].route = "schedule_posts"
    /\ registry' = add_scheduled_post(http[h].local, http[h].filename,
                                      http[h].scheduled_time)
    /\ serial' = add_scheduled_post(serial, http[h].filename, http[h].scheduled_time)
    /\ clears' = 0
    /\ attempts' = [attempts EXCEPT ![http[h].filename] = 0]
    /\ http' = [http EXCEPT ![h].pc = "saved"]
    /\ UNCHANGED <<history, images, uploaded, stop_event, scheduled_posts_running,
                   upload_running, schedule_lock, now, wk, up, budget, removed,
                   late>>
    /\ UNCHANGED <<upload_message, docvars, lockvars>>

\* POST /cancel_schedule, L582-598, down to the load inside remove_scheduled_post (L108).
cancel_schedule_load(h, filename) ==
    /\ http[h].pc = "idle"
    /\ budget > 0
    /\ CanAcquire(h)
    /\ schedule_lock' = h
    /\ http' = [http EXCEPT ![h] = [pc |-> "locked", route |-> "cancel_schedule",
                                    filename |-> filename, scheduled_time |-> 0,
                                    local |-> registry]]
    /\ budget' = budget - 1
    /\ UNCHANGED <<registry, history, images, uploaded, stop_event,
                   scheduled_posts_running, upload_running, now, wk, up, serial,
                   removed, clears, attempts, late>>
    /\ UNCHANGED <<upload_message, docvars, lockvars>>

\* remove_scheduled_post, uploader.py L109-110: filter, then save.
cancel_schedule_save(h) ==
    /\ http[h].pc = "locked"
    /\ http[h].route = "cancel_schedule"
    /\ registry' = remove_scheduled_post(http[h].local, http[h].filename)
    /\ serial' = remove_scheduled_post(serial, http[h].filename)
    /\ clears' = 0
    /\ removed' = TRUE
    /\ http' = [http EXCEPT ![h].pc = "saved"]
    /\ UNCHANGED <<history, images, uploaded, stop_event, scheduled_posts_running,
                   upload_running, schedule_lock, now, wk, up, budget, attempts, late>>
    /\ UNCHANGED <<upload_message, docvars, lockvars>>

\* POST /clear_all_scheduled, L603-609: the lock is taken and [] is saved (no load).
clear_all_scheduled(h) ==
    /\ http[h].pc = "idle"
    /\ budget > 0
    /\ CanAcquire(h)
    /\ schedule_lock' = h
    /\ registry' = clear_all_scheduled_posts(registry)
    /\ serial' = clear_all_scheduled_posts(serial)
    /\ clears' = Min(clears + 1, 2)
    /\ http' = [http EXCEPT ![h] = [HttpIdle EXCEPT !.pc = "saved",
                                                    !.route = "clear_all_scheduled"]]
    /\ budget' = budget - 1
    /\ UNCHANGED <<history, images, uploaded, stop_event, scheduled_posts_running,
                   upload_running, now, wk, up, removed, attempts, late>>
    /\ UNCHANGED <<upload_message, docvars, lockvars>>

\* The end of the `with schedule_lock:` block of the three routes (L570, L598, L609).
\* cancel_schedule and clear_all_scheduled then answer; schedule_posts goes on to L573.
release_schedule_lock(h) ==
    /\ http[h].pc = "saved"
    /\ schedule_lock' = NoThread
    /\ http' = [http EXCEPT ![h] = IF http[h].route = "schedule_posts"
                                   THEN [HttpIdle EXCEPT !.pc = "L574",
                                                         !.route = "schedule_posts"]
                                   ELSE HttpIdle]
    /\ UNCHANGED <<registry, history, images, uploaded, stop_event,
                   scheduled_posts_running, upload_running, now, wk, up, budget,
                   serial, removed, clears, attempts, late>>
    /\ UNCHANGED <<upload_message, docvars, lockvars>>

\* schedule_posts L572-578: start a worker thread unless the flag says one runs.
schedule_posts_start(h) ==
    /\ http[h].pc = "L574"
    /\ scheduled_posts_running \/ FreeSlots # {}
    /\ wk' = IF scheduled_posts_running THEN wk ELSE StartWorker(wk)
    /\ http' = [http EXCEPT ![h] = HttpIdle]
    /\ UNCHANGED <<registry, history, images, uploaded, stop_event,
                   scheduled_posts_running, upload_running, schedule_lock, now, up,
                   budget, serial, removed, clears, attempts, late>>
    /\ UNCHANGED <<upload_message, docvars, lockvars>>

\* POST /start, L370-385. With the flag set the route answers with an error and
\* changes nothing.
start_upload(h) ==
    /\ http[h].pc = "idle"
    /\ budget > 0
    /\ ~scheduled_posts_running
    /\ FreeSlots # {}
    /\ scheduled_posts_running' = TRUE
    /\ wk' = StartWorker(wk)
    /\ budget' = budget - 1
    /\ UNCHANGED <<registry, history, images, uploaded, stop_event, upload_running,
                   schedule_lock, now, http, up, serial, removed, clears, attempts, late>>
    /\ UNCHANGED <<upload_message, docvars, lockvars>>

\* POST /start_scheduled_monitoring, L643-658: the same steps as /start.
start_scheduled_monitoring(h) ==
    /\ http[h].pc = "idle"
    /\ budget > 0
    /\ ~scheduled_posts_running
    /\ FreeSlots # {}
    /\ scheduled_posts_running' = TRUE
    /\ wk' = StartWorker(wk)
    /\ budget' = budget - 1
    /\ UNCHANGED <<registry, history, images, uploaded, stop_event, upload_running,
                   schedule_lock, now, http, up, serial, removed, clears, attempts, late>>
    /\ UNCHANGED <<upload_message, docvars, lockvars>>

\* POST /stop_scheduled_monitoring, L660-672. With the flag clear the route answers
\* with an error and changes nothing.
stop_scheduled_monitoring(h) ==
    /\ http[h].pc = "idle"
    /\ budget > 0
    /\ scheduled_posts_running
    /\ scheduled_posts_running' = FALSE
    /\ budget' = budget - 1
    /\ UNCHANGED <<registry, history, images, uploaded, stop_event, upload_running,
                   schedule_lock, now, http, wk, up, serial, removed, clears,
                   attempts, late>>
    /\ UNCHANGED <<upload_message, docvars, lockvars>>

\* POST /stop, L387-407: the event and the flag are written before the route looks
\* at upload_status["running"], which is False afterwards on both branches; the
\* message is written only when it was True.
stop_upload(h) ==
    /\ http[h].pc = "idle"
    /\ budget > 0
    /\ stop_event' = TRUE
    /\ scheduled_posts_running' = FALSE
    /\ upload_running' = FALSE
    /\ upload_message' = IF upload_running THEN "Upload process stopped by user"
                         ELSE upload_message
    /\ budget' = budget - 1
    /\ UNCHANGED <<registry, history, images, uploaded, schedule_lock, now, http,
                   wk, up, serial, removed, clears, attempts, late>>
    /\ UNCHANGED <<docvars, lockvars>>

\* POST /upload with one allowed file, L332-368: the file is saved into
\* UPLOAD_FOLDER.
upload_file(h, filename) ==
    /\ http[h].pc = "idle"
    /\ budget > 0
    /\ images' = images \cup {filename}
    /\ budget' = budget - 1
    /\ UNCHANGED <<registry, history, uploaded, stop_event, scheduled_posts_running,
                   upload_running, schedule_lock, now, http, wk, up, serial, removed,
                   clears, attempts, late, upload_message>>
    /\ UNCHANGED <<docvars, lockvars>>

\* POST /clear_history, L492-499: save_upload_history([]).
clear_history(h) ==
    /\ http[h].pc = "idle"
    /\ budget > 0
    /\ history' = <<>>
    /\ budget' = budget - 1
    /\ UNCHANGED <<registry, images, uploaded, stop_event, scheduled_posts_running,
                   upload_running, schedule_lock, now, http, wk, up, serial, removed,
                   clears, attempts, late, upload_message>>
    /\ UNCHANGED <<docvars, lockvars>>

\* ------------------------- instagram_webui.py: run_scheduled_posts_thread
\* L281-282
sleep_time == 60
sleep_interval == 5

\* L229-231 with the comparison turned round: entries due later are taken too.
IsDueAnyTime(post, current_time) == post.status = "pending"

\* L229-231: the entry is pending and its time has come.
IsDue(post, current_time) ==
    /\ post.status = "pending"
    /\ current_time >= post.scheduled_time

\* A for loop that handles the first due entry and passes over the others.
NextDueOnce(posts, from, current_time) ==
    IF from = 1 /\ \E i \in 1..Len(posts) : IsDue(posts[i], current_time)
    THEN CHOOSE i \in 1..Len(posts) :
             /\ IsDue(posts[i], current_time)
             /\ \A j \in 1..(i - 1) : ~IsDue(posts[j], current_time)
    ELSE Len(posts) + 1

\* The for loop of L228 from position `from` on: the next entry that passes
\* L229-231, or Len(posts) + 1 when the loop runs out.
NextDue(posts, from, current_time) ==
    IF \E i \in from..Len(posts) : IsDue(posts[i], current_time)
    THEN CHOOSE i \in from..Len(posts) :
             /\ IsDue(posts[i], current_time)
             /\ \A j \in from..(i - 1) : ~IsDue(posts[j], current_time)
    ELSE Len(posts) + 1

\* A frame that leaves the loop for the finally block.
ProcessedAborts(f, status) ==
    [f EXCEPT !.posts = [f.posts EXCEPT ![f.idx].status = status], !.pc = "L294"]

\* The same frame without the count of L256 / L263 / L267.
ProcessedUncounted(f, status) ==
    LET posts == [f.posts EXCEPT ![f.idx].status = status]
        next == NextDue(posts, f.idx + 1, f.cur)
    IN [f EXCEPT !.posts = posts,
                 !.idx = next,
                 !.ok = FALSE,
                 !.hist = <<>>,
                 !.pc = IF next <= Len(posts) THEN "L235" ELSE "L270"]

\* The frame after the body of one loop iteration: the entry at idx has its new
\* status, posts_processed is counted, and the loop moves to the next due entry.
Processed(f, status) ==
    LET posts == [f.posts EXCEPT ![f.idx].status = status]
        next == NextDue(posts, f.idx + 1, f.cur)
    IN [f EXCEPT !.posts = posts,
                 !.processed = f.processed + 1,
                 !.idx = next,
                 !.ok = FALSE,
                 !.hist = <<>>,
                 !.pc = IF next <= Len(posts) THEN "L235" ELSE "L270"]

\* L235 without the test.
StopRequestedNever(w) == FALSE

\* L235: if stop_event.is_set()
StopRequested(w) == stop_event

\* L207-218: the thread's first statement sets the flag; then load_config and
\* get_instagram_client, whose failure raises into L290.
worker_start(w) ==
    /\ wk[w].pc = "L207"
    /\ scheduled_posts_running' = TRUE
    /\ \E logged_in \in BOOLEAN :
          wk' = [wk EXCEPT ![w].pc = IF logged_in THEN "L220" ELSE "L294"]
    /\ UNCHANGED <<registry, history, images, uploaded, stop_event, upload_running,
                   schedule_lock, now, http, up, budget, serial, removed, clears,
                   attempts, late>>
    /\ UNCHANGED <<upload_message, docvars, lockvars>>

\* L220-231: the while test; then load_scheduled_posts_safe (L194-197, the lock is
\* taken and released around the load), current_time, and the for loop up to the
\* first due entry.
worker_load(w) ==
    /\ wk[w].pc = "L220"
    /\ IF scheduled_posts_running /\ ~stop_event
       THEN /\ CanAcquire(w)
            /\ LET first == NextDue(registry, 1, now)
               IN wk' = [wk EXCEPT ![w] = [@ EXCEPT !.posts = registry,
                                                    !.cur = now,
                                                    !.processed = 0,
                                                    !.idx = first,
                                                    !.pc = IF first <= Len(registry)
                                                           THEN "L235" ELSE "L270"]]
       ELSE wk' = [wk EXCEPT ![w].pc = "L294"]
    /\ UNCHANGED <<registry, history, images, uploaded, stop_event,
                   scheduled_posts_running, upload_running, schedule_lock, now, http,
                   up, budget, serial, removed, clears, attempts, late>>
    /\ UNCHANGED <<upload_message, docvars, lockvars>>

\* L235-237: the stop check before the upload; a set event returns through L293.
worker_stop_check(w) ==
    /\ wk[w].pc = "L235"
    /\ wk' = [wk EXCEPT ![w] = IF StopRequested(w) THEN [WorkerNone EXCEPT !.pc = "L294"]
                               ELSE [@ EXCEPT !.pc = "L241"]]
    /\ UNCHANGED <<registry, history, images, uploaded, stop_event,
                   scheduled_posts_running, upload_running, schedule_lock, now, http,
                   up, budget, serial, removed, clears, attempts, late>>
    /\ UNCHANGED <<upload_message, docvars, lockvars>>

\* L241 taking every file for present.
FileExistsAlways(filename) == TRUE

\* L241: os.path.exists(image_path)
FileExists(filename) == filename \in images

\* L240-242 and L264-267: with the file in place upload_single_image is called,
\* without it the entry becomes 'error: file not found'.
worker_begin_upload(w) ==
    /\ wk[w].pc = "L241"
    /\ LET filename == wk[w].posts[wk[w].idx].filename
       IN IF FileExists(filename)
          THEN /\ wk' = [wk EXCEPT ![w].pc = "L242"]
               /\ attempts' = [attempts EXCEPT ![filename] = Min(@ + 1, 2)]
               /\ late' = [late EXCEPT ![w] = IF stop_event THEN Min(@ + 1, 2) ELSE @]
          ELSE /\ wk' = [wk EXCEPT ![w] = Processed(@, "error: file not found")]
               /\ UNCHANGED <<attempts, late>>
    /\ UNCHANGED <<registry, history, images, uploaded, stop_event,
                   scheduled_posts_running, upload_running, schedule_lock, now, http,
                   up, budget, serial, removed, clears>>
    /\ UNCHANGED <<upload_message, docvars, lockvars>>

\* L242 returns (uploader.py L156-165: success, or the caught error), and
\* add_to_upload_history loads the history (uploader.py L57).
worker_upload_returns(w) ==
    /\ wk[w].pc = "L242"
    /\ \E success \in BOOLEAN :
          wk' = [wk EXCEPT ![w].ok = success, ![w].hist = history, ![w].pc = "L65"]
    /\ UNCHANGED <<registry, history, images, uploaded, stop_event,
                   scheduled_posts_running, upload_running, schedule_lock, now, http,
                   up, budget, serial, removed, clears, attempts, late>>
    /\ UNCHANGED <<upload_message, docvars, lockvars>>

\* L247 / L260: add_to_upload_history appends its entry to what it loaded and
\* saves (uploader.py L58-65). After a failed upload the status is set (L262-263).
worker_history_save(w) ==
    /\ wk[w].pc = "L65"
    /\ LET filename == wk[w].posts[wk[w].idx].filename
           status == IF wk[w].ok THEN "SUCCESS (Scheduled)"
                     ELSE "ERROR (Scheduled): ERROR: upload failed"
       IN history' = Append(wk[w].hist,
                            history_entry(wk[w].hist, filename, status))
    /\ wk' = [wk EXCEPT ![w] = IF wk[w].ok THEN [@ EXCEPT !.pc = "L249", !.hist = <<>>]
                               ELSE Processed(@, "error: ERROR: upload failed")]
    /\ UNCHANGED <<registry, images, uploaded, stop_event, scheduled_posts_running,
                   upload_running, schedule_lock, now, http, up, budget, serial,
                   removed, clears, attempts, late>>
    /\ UNCHANGED <<upload_message, docvars, lockvars>>

\* L249-256: the file moves to the uploaded directory (a file already there is
\* removed first) and the entry becomes 'posted'. os.rename raises into L290 when
\* the source file is gone.
worker_move_file(w) ==
    /\ wk[w].pc = "L249"
    /\ LET filename == wk[w].posts[wk[w].idx].filename
       IN IF filename \in images
          THEN /\ images' = images \ {filename}
               /\ uploaded' = uploaded \cup {filename}
               /\ wk' = [wk EXCEPT ![w] = Processed(@, "posted")]
          ELSE /\ wk' = [wk EXCEPT ![w] = [WorkerNone EXCEPT !.pc = "L294"]]
               /\ UNCHANGED <<images, uploaded>>
    /\ UNCHANGED <<registry, history, stop_event, scheduled_posts_running,
                   upload_running, schedule_lock, now, http, up, budget, serial,
                   removed, clears, attempts, late>>
    /\ UNCHANGED <<upload_message, docvars, lockvars>>

\* L269-277: save_scheduled_posts_safe (L199-202) writes the thread's copy of the
\* list when posts_processed > 0; then the stop check before the sleep.
worker_save(w) ==
    /\ wk[w].pc = "L270"
    /\ IF wk[w].processed > 0
       THEN /\ CanAcquire(w)
            /\ registry' = wk[w].posts
            /\ serial' = wk[w].posts
            /\ clears' = 0
       ELSE UNCHANGED <<registry, serial, clears>>
    /\ wk' = [wk EXCEPT ![w] = IF stop_event THEN [WorkerNone EXCEPT !.pc = "L294"]
                               ELSE [WorkerNone EXCEPT !.pc = "L284"]]
    /\ UNCHANGED <<history, images, uploaded, stop_event, scheduled_posts_running,
                   upload_running, schedule_lock, now, http, up, budget, removed,
                   attempts, late>>
    /\ UNCHANGED <<upload_message, docvars, lockvars>>

\* L285 without the test.
SleepInterruptedNever(w) == FALSE

\* L285: if not scheduled_posts_running or stop_event.is_set()
SleepInterrupted(w) == ~scheduled_posts_running \/ stop_event

\* L284-288: one pass of the sleep loop, range(0, 60, 5): the check, then 5 s asleep.
worker_sleep(w) ==
    /\ wk[w].pc = "L284"
    /\ wk' = [wk EXCEPT ![w] =
                 IF @.k * sleep_interval >= sleep_time THEN [@ EXCEPT !.pc = "L220", !.k = 0]
                 ELSE IF SleepInterrupted(w) THEN [@ EXCEPT !.pc = "L294"]
                 ELSE [@ EXCEPT !.k = @ + 1]]
    /\ UNCHANGED <<registry, history, images, uploaded, stop_event,
                   scheduled_posts_running, upload_running, schedule_lock, now, http,
                   up, budget, serial, removed, clears, attempts, late>>
    /\ UNCHANGED <<upload_message, docvars, lockvars>>

\* L293-295: finally clears the flag, and the thread ends.
worker_finally(w) ==
    /\ wk[w].pc = "L294"
    /\ scheduled_posts_running' = FALSE
    /\ wk' = [wk EXCEPT ![w] = WorkerNone]
    /\ UNCHANGED <<registry, history, images, uploaded, stop_event, upload_running,
                   schedule_lock, now, http, up, budget, serial, removed, clears,
                   attempts, late>>
    /\ UNCHANGED <<upload_message, docvars, lockvars>>

\* ----------------------------------- instagram_webui.py: run_uploader_thread
\* sorted() of L144 orders the paths by name.
Rank(filename) == IF filename = "a.png" THEN 1 ELSE 2

\* A listing that gives every file name, present or not.
SortedFilesAll(dir) == <<"a.png", "b.png">>

\* A listing in descending order of name.
RECURSIVE SortedFilesDescending(_)
SortedFilesDescending(dir) ==
    IF dir = {} THEN <<>>
    ELSE LET first == CHOOSE f \in dir : \A g \in dir : Rank(f) >= Rank(g)
         IN <<first>> \o SortedFilesDescending(dir \ {first})

\* L144: sorted([f for f in image_dir.glob("*.png") if f.is_file()])
RECURSIVE SortedFiles(_)
SortedFiles(dir) ==
    IF dir = {} THEN <<>>
    ELSE LET first == CHOOSE f \in dir : \A g \in dir : Rank(f) <= Rank(g)
         IN <<first>> \o SortedFiles(dir \ {first})

\* threading.Thread(target=run_uploader_thread).start(): the thread function of
\* L60 is started once the previous run has ended.
start_uploader ==
    /\ up.pc = "none"
    /\ budget > 0
    /\ up' = [UploaderNone EXCEPT !.pc = "L64"]
    /\ budget' = budget - 1
    /\ UNCHANGED <<registry, history, images, uploaded, stop_event,
                   scheduled_posts_running, upload_running, schedule_lock, now, http,
                   wk, serial, removed, clears, attempts, late>>
    /\ UNCHANGED <<upload_message, docvars, lockvars>>

\* The message each outcome of the configuration checks of L70-92 leaves.
ConfigMessage(config) ==
    CASE config = "missing" -> "Configuration file missing"
      [] config = "placeholder" -> "Invalid credentials in configuration"
      [] config = "unreadable" -> "Configuration load error"
      [] OTHER -> "Upload process initiated"

\* L64-92: running is set; a missing or unusable config.json ends the run with
\* running cleared and its message.
uploader_start ==
    /\ up.pc = "L64"
    /\ \E config \in {"ok", "missing", "placeholder", "unreadable"} :
          /\ upload_running' = (config = "ok")
          /\ upload_message' = ConfigMessage(config)
          /\ up' = [up EXCEPT !.pc = IF config = "ok" THEN "L95" ELSE "L117"]
    /\ UNCHANGED <<registry, history, images, uploaded, stop_event,
                   scheduled_posts_running, schedule_lock, now, http, wk, budget,
                   serial, removed, clears, attempts, late>>
    /\ UNCHANGED <<docvars, lockvars>>

\* L95-100 and L121-142: the stop check before the run; then the login, whose
\* failure returns from run_uploader_with_stop_check.
uploader_login ==
    /\ up.pc = "L95"
    /\ IF stop_event
       THEN /\ up' = [up EXCEPT !.pc = "L117"]
            /\ upload_running' = FALSE
            /\ upload_message' = "Upload process cancelled"
       ELSE /\ \E logged_in \in BOOLEAN :
                  up' = IF logged_in THEN [up EXCEPT !.pc = "L144"]
                        ELSE [up EXCEPT !.pc = "L106",
                                        !.log = "FATAL: Could not log in to Instagram."]
            /\ UNCHANGED <<upload_running, upload_message>>
    /\ UNCHANGED <<registry, history, images, uploaded, stop_event,
                   scheduled_posts_running, schedule_lock, now, http,
                   wk, budget, serial, removed, clears, attempts, late>>
    /\ UNCHANGED <<docvars, lockvars>>

\* L144-150: the files of the run; none ends it.
uploader_list ==
    /\ up.pc = "L144"
    /\ LET images_to_upload == SortedFiles(images)
       IN up' = [up EXCEPT !.files = images_to_upload,
                           !.i = 1,
                           !.log = IF images_to_upload = <<>>
                                   THEN "No new images found to upload." ELSE @,
                           !.pc = IF images_to_upload = <<>> THEN "L106" ELSE "L154"]
    /\ UNCHANGED <<registry, history, images, uploaded, stop_event,
                   scheduled_posts_running, upload_running, schedule_lock, now, http,
                   wk, budget, serial, removed, clears, attempts, late>>
    /\ UNCHANGED <<upload_message, docvars, lockvars>>

\* L154 without the test.
UploaderStopRequestedNever == FALSE

\* L154: if stop_event.is_set()
UploaderStopRequested == stop_event

\* L152-156: the stop check at the head of the loop body.
uploader_stop_check ==
    /\ up.pc = "L154"
    /\ up' = IF UploaderStopRequested
             THEN [up EXCEPT !.pc = "L106",
                             !.log = "Stop requested. Terminating upload process."]
             ELSE [up EXCEPT !.pc = "L158"]
    /\ UNCHANGED <<registry, history, images, uploaded, stop_event,
                   scheduled_posts_running, upload_running, schedule_lock, now, http,
                   wk, budget, serial, removed, clears, attempts, late>>
    /\ UNCHANGED <<upload_message, docvars, lockvars>>

\* L158-160: upload_single_image is called.
uploader_begin_upload ==
    /\ up.pc = "L158"
    /\ up' = [up EXCEPT !.pc = "L160", !.calls = @ + 1]
    /\ late' = [late EXCEPT !["up"] = IF stop_event THEN Min(@ + 1, 2) ELSE @]
    /\ UNCHANGED <<registry, history, images, uploaded, stop_event,
                   scheduled_posts_running, upload_running, schedule_lock, now, http,
                   wk, budget, serial, removed, clears, attempts>>
    /\ UNCHANGED <<upload_message, docvars, lockvars>>

\* L160 returns, and add_to_upload_history loads the history (uploader.py L57).
uploader_upload_returns ==
    /\ up.pc = "L160"
    /\ \E success \in BOOLEAN :
          up' = [up EXCEPT !.ok = success, !.hist = history, !.pc = "L65"]
    /\ UNCHANGED <<registry, history, images, uploaded, stop_event,
                   scheduled_posts_running, upload_running, schedule_lock, now, http,
                   wk, budget, serial, removed, clears, attempts, late>>
    /\ UNCHANGED <<upload_message, docvars, lockvars>>

\* L166 / L174: add_to_upload_history appends to what it loaded and saves.
uploader_history_save ==
    /\ up.pc = "L65"
    /\ history' = Append(up.hist,
                         history_entry(up.hist, up.files[up.i],
                                       IF up.ok THEN "SUCCESS"
                                       ELSE "ERROR: upload failed"))
    /\ up' = [up EXCEPT !.hist = <<>>, !.appended = @ + 1,
                        !.pc = IF up.ok THEN "L169" ELSE "L177"]
    /\ UNCHANGED <<registry, images, uploaded, stop_event, scheduled_posts_running,
                   upload_running, schedule_lock, now, http, wk, budget, serial,
                   removed, clears, attempts, late>>
    /\ UNCHANGED <<upload_message, docvars, lockvars>>

\* L169: image_path.rename(...). The rename raises into L110 when the file is
\* gone, and L111-114 set the error message unless the event is set.
uploader_move_file ==
    /\ up.pc = "L169"
    /\ IF up.files[up.i] \in images
       THEN /\ images' = images \ {up.files[up.i]}
            /\ uploaded' = uploaded \cup {up.files[up.i]}
            /\ up' = [up EXCEPT !.pc = "L177"]
            /\ UNCHANGED upload_message
       ELSE /\ up' = [up EXCEPT !.pc = "L117"]
            /\ upload_message' = IF stop_event THEN upload_message ELSE "Process error"
            /\ UNCHANGED <<images, uploaded>>
    /\ UNCHANGED <<registry, history, stop_event, scheduled_posts_running,
                   upload_running, schedule_lock, now, http, wk, budget, serial,
                   removed, clears, attempts, late>>
    /\ UNCHANGED <<docvars, lockvars>>

\* L182: random.uniform(300, 900)
delay_min == 300
delay_max == 900

\* Values that random.uniform(300, 900) returns: the ends of the range and its middle.
Delays == {delay_min, (delay_min + delay_max) \div 2, delay_max}

\* What one pass of the wait loop adds to time.time() - start_time: time.sleep(1)
\* sleeps for a second, or for longer when the thread is not scheduled at once.
Naps == {1, delay_min}

\* The delay and the pass length of the specifications that are not about the wait.
ShortDelays == {delay_min}
LongNaps == {delay_max}

\* L176-186: the stop check before the wait; then the delay is drawn and
\* start_time is taken.
uploader_stop_check_before_wait(delay) ==
    /\ up.pc = "L177"
    /\ up' = IF stop_event
             THEN [up EXCEPT !.pc = "L106",
                             !.log = "Stop requested. Terminating upload process."]
             ELSE [up EXCEPT !.pc = "L187", !.waited = TRUE,
                             !.delay = delay, !.slept = 0]
    /\ UNCHANGED <<registry, history, images, uploaded, stop_event,
                   scheduled_posts_running, upload_running, schedule_lock, now, http,
                   wk, budget, serial, removed, clears, attempts, late>>
    /\ UNCHANGED <<upload_message, docvars, lockvars>>

\* L189 without the test.
WaitInterruptedNever == FALSE

\* L189: if stop_event.is_set()
WaitInterrupted == stop_event

\* A while test that ends the wait at once.
WaitOverAtOnce(slept, delay) == TRUE

\* L187: the negation of `time.time() - start_time < delay`
WaitOver(slept, delay) == ~(slept < delay)

\* L187-192: one pass of the wait loop. Until the delay is over each pass tests
\* the event and sleeps; nap is the time the pass takes. After the wait the for
\* loop goes on to the next file, or ends.
uploader_wait(nap) ==
    /\ up.pc = "L187"
    /\ up' = IF WaitOver(up.slept, up.delay)
             THEN [up EXCEPT !.i = @ + 1,
                             !.pc = IF up.i + 1 <= Len(up.files) THEN "L154"
                                    ELSE "L106"]
             ELSE IF WaitInterrupted
             THEN [up EXCEPT !.pc = "L106",
                             !.log = "Stop requested during wait period. Terminating upload process."]
             ELSE [up EXCEPT !.slept = @ + nap]
    /\ UNCHANGED <<registry, history, images, uploaded, stop_event,
                   scheduled_posts_running, upload_running, schedule_lock, now, http,
                   wk, budget, serial, removed, clears, attempts, late>>
    /\ UNCHANGED <<upload_message, docvars, lockvars>>

\* L105-109: back in run_uploader_thread after run_uploader_with_stop_check has
\* returned, by any of its returns: the success message unless the event is set.
uploader_returns ==
    /\ up.pc = "L106"
    /\ upload_message' = IF stop_event THEN upload_message
                         ELSE "Upload process completed successfully"
    /\ up' = [up EXCEPT !.pc = "L117"]
    /\ UNCHANGED <<registry, history, images, uploaded, stop_event,
                   scheduled_posts_running, upload_running, schedule_lock, now, http,
                   wk, budget, serial, removed, clears, attempts, late>>
    /\ UNCHANGED <<docvars, lockvars>>

\* L115-117: finally clears running, and the thread ends.
uploader_finally ==
    /\ up.pc = "L117"
    /\ upload_running' = FALSE
    /\ up' = UploaderNone
    /\ UNCHANGED <<registry, history, images, uploaded, stop_event,
                   scheduled_posts_running, schedule_lock, now, http, wk, budget,
                   serial, removed, clears, attempts, late>>
    /\ UNCHANGED <<upload_message, docvars, lockvars>>

\* --------------------------- uploader.py / encryption.py: the document store
\* A history or schedule document is a JSON list; its entries are written here by
\* their filename alone.
Docs == UNION {[1..n -> Files] : n \in 0..MaxDocLen}

\* The values of a credential field of config.json: a short plain text, a plain
\* text of more than 50 characters, and the text sealed under either key.
FieldValues == {"user", "long plain text", "sealed:k1", "sealed:k2"}

\* get_encryption_key() (encryption.py L13-32) gives a key Fernet accepts, or,
\* for an ENCRYPTION_KEY that is valid base64, the decoded bytes of L24, which
\* Fernet(key) rejects.
ProcessKeys == {"k1", "unusable"}

\* The file at a path: absent, a text, or the token encrypt_data returns.
Missing == [form |-> "missing", body |-> <<>>, sealkey |-> "none"]
Text(body) == [form |-> "text", body |-> body, sealkey |-> "none"]
Token(body, k) == [form |-> "token", body |-> body, sealkey |-> k]

Raised == [ok |-> FALSE, value |-> <<>>]
Returned(v) == [ok |-> TRUE, value |-> v]

\* A dump that leaves the list open.
json_dumps_unclosed(x) == <<"[">> \o x

\* json.dump of a list (uploader.py L45, L74): the text, token by token.
json_dumps(x) == <<"[">> \o x \o <<"]">>

\* json.loads / json.load: the value of a well-formed text, an exception otherwise.
json_loads(body) ==
    IF /\ Len(body) >= 2
       /\ \/ body[1] = "[" /\ body[Len(body)] = "]"
          \/ body[1] = "{" /\ body[Len(body)] = "}"
       /\ \A i \in 2..(Len(body) - 1) : body[i] \in Files \cup FieldValues
    THEN Returned(SubSeq(body, 2, Len(body) - 1))
    ELSE Raised

\* encrypt_data, encryption.py L49-62: Fernet(key) raises for a key it rejects.
encrypt_data(data, k) ==
    IF k = "unusable" THEN [ok |-> FALSE, value |-> Missing]
    ELSE [ok |-> TRUE, value |-> Token(data, k)]

\* decrypt_data, encryption.py L65-80: the text that was sealed, for a token made
\* under the same key; an exception for any other content.
decrypt_data(content, k) ==
    IF k # "unusable" /\ content.form = "token" /\ content.sealkey = k
    THEN Returned(content.body)
    ELSE Raised

\* encryption.py L231-237 / L289-295 with the inner handler taken away.
plain_json_uncaught(content) ==
    IF content.form = "text" THEN json_loads(content.body) ELSE Raised

\* encryption.py L231-237 / L289-295: the file read as regular JSON; any
\* exception gives [].
plain_json(content) ==
    LET parsed == IF content.form = "text" THEN json_loads(content.body) ELSE Raised
    IN IF parsed.ok THEN parsed ELSE Returned(<<>>)

\* encryption.py L221-230 / L279-288: decrypt the content and parse the result.
sealed_json(content, k) ==
    LET opened == decrypt_data(content, k)
    IN IF opened.ok THEN json_loads(opened.value) ELSE Raised

\* decrypt_upload_history / decrypt_scheduled_posts on a file nobody writes
\* meanwhile: the value the file holds.
load_document(content, k) ==
    IF content.form = "missing" THEN <<>>
    ELSE IF sealed_json(content, k).ok THEN sealed_json(content, k).value
    ELSE plain_json(content).value

\* decrypt_config_file L158-174: a field of more than 50 characters is opened
\* with decrypt_sensitive_data, and left as it is when that raises.
decrypt_field(v, k) ==
    IF v = "user" THEN v
    ELSE IF v = "sealed:k1" /\ k = "k1" THEN "user"
    ELSE v

SaverIdle == [pc |-> "idle", value |-> <<>>, data |-> Missing, before |-> <<>>]

\* result and ok are what the call gave its caller. first is the content the file
\* had when the call began, disturbed says that a read of the call found another
\* content, expect is the value of the save that had completed before the call
\* (after_save), allowed are the values held by the file before and after the
\* saves that ran during the call.
LoaderIdle == [pc |-> "idle", result |-> <<>>, ok |-> TRUE, first |-> Missing,
               disturbed |-> FALSE, after_save |-> FALSE, expect |-> <<>>,
               allowed |-> {}]

DocIdle ==
    /\ disk = [path |-> "upload_history.json", content |-> Missing]
    /\ key = "k1"
    /\ saver = SaverIdle
    /\ loader = LoaderIdle

InSave == saver.pc \notin {"idle", "done"}
InLoad == loader.pc \notin {"idle", "done"}

\* save_upload_history(history) / save_scheduled_posts(scheduled_posts) is called.
save_begin(x) ==
    /\ ~InSave
    /\ budget > 0
    /\ disk.path # "config.json"
    /\ saver' = [pc |-> "L44", value |-> x, data |-> Missing,
                 before |-> load_document(disk.content, key)]
    /\ loader' = IF InLoad THEN [loader EXCEPT !.allowed = @ \cup {x}] ELSE loader
    /\ budget' = budget - 1
    /\ UNCHANGED <<disk, key>>
    /\ UNCHANGED appvars

\* uploader.py L44 / L73: open(path, 'w') leaves an empty file.
save_open ==
    /\ saver.pc = "L44"
    /\ disk' = [disk EXCEPT !.content = Text(<<>>)]
    /\ saver' = [saver EXCEPT !.pc = "L45"]
    /\ UNCHANGED <<key, loader, budget>>
    /\ UNCHANGED appvars

\* uploader.py L45 / L74: json.dump writes the text piece by piece.
save_dump ==
    /\ saver.pc = "L45"
    /\ LET text == json_dumps(saver.value)
       IN \E n \in (Len(disk.content.body) + 1)..Len(text) :
             /\ disk' = [disk EXCEPT !.content = Text(SubSeq(text, 1, n))]
             /\ saver' = [saver EXCEPT !.pc = IF n = Len(text) THEN "L51" ELSE "L45"]
    /\ UNCHANGED <<key, loader, budget>>
    /\ UNCHANGED appvars

\* uploader.py L48-53 and encryption.py L189-198 / L247-256: the file is read back
\* and encrypted; an exception (L203 / L261) leaves the file as it is.
save_encrypt ==
    /\ saver.pc = "L51"
    /\ LET sealed == encrypt_data(disk.content.body, key)
       IN saver' = IF sealed.ok
                   THEN [saver EXCEPT !.pc = "L201", !.data = sealed.value]
                   ELSE [saver EXCEPT !.pc = "done"]
    /\ UNCHANGED <<disk, key, loader, budget>>
    /\ UNCHANGED appvars

\* encryption.py L201 / L259: open(file_path, 'w') leaves an empty file.
save_encrypt_open ==
    /\ saver.pc = "L201"
    /\ disk' = [disk EXCEPT !.content = Text(<<>>)]
    /\ saver' = [saver EXCEPT !.pc = "L202"]
    /\ UNCHANGED <<key, loader, budget>>
    /\ UNCHANGED appvars

\* encryption.py L202 / L260: the encrypted data is written.
save_encrypt_write ==
    /\ saver.pc = "L202"
    /\ disk' = [disk EXCEPT !.content = saver.data]
    /\ saver' = [saver EXCEPT !.pc = "done", !.data = Missing]
    /\ UNCHANGED <<key, loader, budget>>
    /\ UNCHANGED appvars

\* load_upload_history() / load_scheduled_posts() / load_config() is called.
load_begin ==
    /\ ~InLoad
    /\ budget > 0
    /\ loader' = [LoaderIdle EXCEPT
                     !.pc = IF disk.path = "config.json" THEN "L149" ELSE "L218",
                     !.first = disk.content,
                     !.after_save = (saver.pc = "done"),
                     !.expect = saver.value,
                     !.allowed = IF InSave THEN {saver.before, saver.value}
                                 ELSE {load_document(disk.content, key)}]
    /\ budget' = budget - 1
    /\ UNCHANGED <<disk, key, saver>>
    /\ UNCHANGED appvars

\* decrypt_upload_history L218-230 / decrypt_scheduled_posts L276-288: [] for a
\* missing file; else the file is read, decrypted and parsed. An exception goes
\* to the handler of L231 / L289.
load_sealed ==
    /\ loader.pc = "L218"
    /\ LET attempt == sealed_json(disk.content, key)
       IN loader' =
             IF disk.content.form = "missing"
             THEN [loader EXCEPT !.pc = "done", !.result = <<>>]
             ELSE IF attempt.ok
             THEN [loader EXCEPT !.pc = "done", !.result = attempt.value,
                                 !.disturbed = (disk.content # loader.first)]
             ELSE [loader EXCEPT !.pc = "L234",
                                 !.disturbed = (disk.content # loader.first)]
    /\ UNCHANGED <<disk, key, saver, budget>>
    /\ UNCHANGED appvars

\* decrypt_upload_history L231-237 / decrypt_scheduled_posts L289-295: the file
\* is opened again and read as regular JSON.
load_plain ==
    /\ loader.pc = "L234"
    /\ LET attempt == plain_json(disk.content)
       IN loader' = [loader EXCEPT !.pc = "done",
                                   !.result = attempt.value,
                                   !.ok = attempt.ok,
                                   !.disturbed = @ \/ disk.content # loader.first]
    /\ UNCHANGED <<disk, key, saver, budget>>
    /\ UNCHANGED appvars

\* decrypt_config_file, encryption.py L149-179: {} for a missing file and for any
\* exception; else the parsed mapping with its credential fields opened.
decrypt_config_file ==
    /\ loader.pc = "L149"
    /\ LET parsed == IF disk.content.form = "text" THEN json_loads(disk.content.body)
                     ELSE Raised
       IN loader' = [loader EXCEPT
                        !.pc = "done",
                        !.result = IF parsed.ok
                                   THEN [i \in 1..Len(parsed.value) |->
                                            decrypt_field(parsed.value[i], key)]
                                   ELSE <<>>]
    /\ UNCHANGED <<disk, key, saver, budget>>
    /\ UNCHANGED appvars

\* The clock moves on.
Tick ==
    /\ now < MaxTime
    /\ now' = now + 1
    /\ UNCHANGED <<registry, history, images, uploaded, stop_event,
                   scheduled_posts_running, upload_running, schedule_lock, http, wk,
                   up, budget, serial, removed, clears, attempts, late>>
    /\ UNCHANGED <<upload_message, docvars, lockvars>>

\* ------------------------------------- instagram_webui.py: the use of the locks
\* Each code path below is the sequence of its statements that take or give up a
\* lock, read or write a document, or touch upload_status, in source order. A
\* thread runs one path at a time, one statement per step; threading.Lock is not
\* reentrant, so an acquire waits while the lock has any holder, the thread
\* itself included.
LockThreads == HttpThreads \cup WorkerThreads \cup {"up"}

Acquire(lock) == <<"acquire", lock>>

Release(lock) == <<"release", lock>>

Load(document) == <<"load", document>>

Save(document) == <<"save", document>>

\* `with lock:` around a body.
with_lock(lock, body) == <<Acquire(lock)>> \o body \o <<Release(lock)>>

\* L52-58.
log_message == with_lock("status_lock", << <<"write", "upload_status">> >>)

\* L194-197.
load_scheduled_posts_safe ==
    with_lock("schedule_lock", <<Load("scheduled_posts.json")>>)

\* L199-202.
save_scheduled_posts_safe ==
    with_lock("schedule_lock", <<Save("scheduled_posts.json")>>)

\* uploader.py load_config, L34-36: no lock.
load_config == <<Load("config.json")>>

\* uploader.py L55-65: the ledger is loaded and saved, with no lock.
add_to_upload_history_ops ==
    <<Load("upload_history.json"), Save("upload_history.json")>>

\* GET /status, L409-413.
get_status == with_lock("status_lock", << <<"read", "upload_status">> >>)

\* GET /logs, L471-477.
logs == with_lock("status_lock", << <<"read", "upload_status">> >>)

\* GET /, L297-311.
index == with_lock("status_lock", << <<"read", "upload_status">> >>)

\* GET /schedule, L314-330.
schedule == with_lock("schedule_lock", <<Load("scheduled_posts.json")>>)

\* POST /schedule_posts with one post, L545-580: add_scheduled_post (uploader.py
\* L84-104) loads and saves the registry inside the block of L569.
schedule_posts_ops ==
    with_lock("schedule_lock",
              <<Load("scheduled_posts.json"), Save("scheduled_posts.json")>>)

\* POST /cancel_schedule, L583-601: remove_scheduled_post (uploader.py L106-110)
\* loads and saves the registry inside the block of L597.
cancel_schedule_ops ==
    with_lock("schedule_lock",
              <<Load("scheduled_posts.json"), Save("scheduled_posts.json")>>)

\* POST /clear_all_scheduled, L604-612: clear_scheduled_posts (uploader.py L112-114)
\* saves the empty registry inside the block of L608.
clear_all_scheduled_ops ==
    with_lock("schedule_lock", <<Save("scheduled_posts.json")>>)

\* POST /stop answered with the error, L399-401: the return leaves the block.
stop_upload_refused == with_lock("status_lock", << <<"read", "upload_status">> >>)

\* The same statements with the log call of L406 made inside the block of L399.
stop_upload_logging_inside ==
    with_lock("status_lock",
              << <<"read", "upload_status">>, <<"write", "upload_status">> >>
              \o log_message)

\* POST /stop answered with success, L399-407.
stop_upload_ops ==
    with_lock("status_lock",
              << <<"read", "upload_status">>, <<"write", "upload_status">> >>)
    \o log_message

\* run_scheduled_posts_thread, L204-295: one cycle that publishes one due post
\* and is then told to stop in its sleep loop.
run_scheduled_posts_thread ==
    load_config                      \* L211
    \o log_message                   \* L218
    \o load_scheduled_posts_safe     \* L222
    \o log_message                   \* L232
    \o log_message                   \* L245
    \o add_to_upload_history_ops     \* L247
    \o save_scheduled_posts_safe     \* L271
    \o log_message                   \* L272
    \o log_message                   \* L286
    \o log_message                   \* L295

\* run_uploader_thread, L60-117, with one file published by
\* run_uploader_with_stop_check, whose own log_message (L129) writes the log file.
run_uploader_thread ==
    with_lock("status_lock", << <<"write", "upload_status">> >>)      \* L64-66
    \o log_message                                 \* L67
    \o load_config                                 \* L79
    \o load_config                                 \* L121
    \o add_to_upload_history_ops                   \* L166
    \o with_lock("status_lock", << <<"write", "upload_status">> >>)   \* L107-108
    \o log_message                                 \* L109
    \o with_lock("status_lock", << <<"write", "upload_status">> >>)   \* L116-117

HttpPaths == {"get_status", "logs", "index", "schedule", "schedule_posts",
              "cancel_schedule", "clear_all_scheduled", "start_upload",
              "stop_upload", "stop_upload_refused", "scheduled_monitoring",
              "clear_history"}

PathsOf(t) ==
    IF t \in HttpThreads THEN HttpPaths
    ELSE IF t \in WorkerThreads THEN {"run_scheduled_posts_thread"}
    ELSE {"run_uploader_thread"}

LockPath(path) ==
    CASE path = "get_status" -> get_status
      [] path = "logs" -> logs
      [] path = "index" -> index
      [] path = "schedule" -> schedule
      [] path = "schedule_posts" -> schedule_posts_ops
      [] path = "cancel_schedule" -> cancel_schedule_ops
      [] path = "clear_all_scheduled" -> clear_all_scheduled_ops
      [] path = "start_upload" -> log_message                       \* L384
      [] path = "stop_upload" -> stop_upload_ops
      [] path = "stop_upload_refused" -> stop_upload_refused
      [] path = "scheduled_monitoring" -> log_message               \* L657, L671
      [] path = "clear_history" -> <<Save("upload_history.json")>>  \* L496
      [] path = "run_scheduled_posts_thread" -> run_scheduled_posts_thread
      [] path = "run_uploader_thread" -> run_uploader_thread

LocksIdle ==
    /\ status_lock = NoThread
    /\ lk = [t \in LockThreads |-> [path |-> "none", at |-> 0]]

Busy(t) == lk[t].path # "none"

CurrentOp(t) == LockPath(lk[t].path)[lk[t].at]

Holder(lock) == IF lock = "status_lock" THEN status_lock ELSE schedule_lock

IsDocOp(op) == op[1] \in {"load", "save"}

\* The thread's next statement can run: only an acquire ever waits.
CanStep(t) ==
    /\ Busy(t)
    /\ CurrentOp(t)[1] = "acquire" => Holder(CurrentOp(t)[2]) = NoThread

\* A thread enters a code path.
lock_begin(t, path) ==
    /\ ~Busy(t)
    /\ budget > 0
    /\ path \in PathsOf(t)
    /\ lk' = [lk EXCEPT ![t] = [path |-> path, at |-> 1]]
    /\ budget' = budget - 1
    /\ UNCHANGED <<registry, history, images, uploaded, stop_event,
                   scheduled_posts_running, upload_running, schedule_lock, now, http,
                   wk, up, serial, removed, clears, attempts, late, upload_message,
                   status_lock>>
    /\ UNCHANGED docvars

\* A thread runs the statement it is at.
lock_step(t) ==
    /\ CanStep(t)
    /\ LET op == CurrentOp(t)
           after(lock) == IF op = Acquire(lock) THEN t
                          ELSE IF op = Release(lock) THEN NoThread
                          ELSE Holder(lock)
       IN /\ status_lock' = after("status_lock")
          /\ schedule_lock' = after("schedule_lock")
    /\ lk' = [lk EXCEPT ![t] = IF lk[t].at = Len(LockPath(lk[t].path)) THEN [path |-> "none", at |-> 0]
                               ELSE [lk[t] EXCEPT !.at = @ + 1]]
    /\ UNCHANGED <<registry, history, images, uploaded, stop_event,
                   scheduled_posts_running, upload_running, now, http, wk, up, budget,
                   serial, removed, clears, attempts, late, upload_message>>
    /\ UNCHANGED docvars

\* ------------------------------------------------------------ specification
Init ==
    /\ registry = <<>>
    /\ history = <<>>
    /\ images = Files
    /\ uploaded = {}
    /\ stop_event = FALSE
    /\ scheduled_posts_running = FALSE
    /\ upload_running = FALSE
    /\ schedule_lock = NoThread
    /\ now = 0
    /\ http = [h \in HttpThreads |-> HttpIdle]
    /\ wk = [w \in WorkerThreads |-> WorkerNone]
    /\ up = UploaderNone
    /\ budget = MaxRequests
    /\ serial = <<>>
    /\ removed = FALSE
    /\ clears = 0
    /\ attempts = [f \in Files |-> 0]
    /\ late = [t \in WorkerThreads \cup {"up"} |-> 0]
    /\ upload_message = "System ready for upload process"
    /\ DocIdle
    /\ LocksIdle

\* The requests of Spec arrive one after the other, on one thread.
MainHttp == {"h1"}

Next ==
    \/ \E h \in MainHttp, f \in Files, t \in Times : schedule_posts_load(h, f, t)
    \/ \E h \in MainHttp : schedule_posts_save(h)
    \/ \E h \in MainHttp, f \in Files : cancel_schedule_load(h, f)
    \/ \E h \in MainHttp : cancel_schedule_save(h)
    \/ \E h \in MainHttp : clear_all_scheduled(h)
    \/ \E h \in MainHttp : release_schedule_lock(h)
    \/ \E h \in MainHttp : schedule_posts_start(h)
    \/ \E h \in MainHttp : start_upload(h)
    \/ \E h \in MainHttp : start_scheduled_monitoring(h)
    \/ \E h \in MainHttp : stop_scheduled_monitoring(h)
    \/ \E h \in MainHttp : stop_upload(h)
    \/ \E w \in WorkerThreads : worker_start(w)
    \/ \E w \in WorkerThreads : worker_load(w)
    \/ \E w \in WorkerThreads : worker_stop_check(w)
    \/ \E w \in WorkerThreads : worker_begin_upload(w)
    \/ \E w \in WorkerThreads : worker_upload_returns(w)
    \/ \E w \in WorkerThreads : worker_history_save(w)
    \/ \E w \in WorkerThreads : worker_move_file(w)
    \/ \E w \in WorkerThreads : worker_save(w)
    \/ \E w \in WorkerThreads : worker_sleep(w)
    \/ \E w \in WorkerThreads : worker_finally(w)
    \/ Tick

Spec == Init /\ [][Next]_vars

\* The registry routes alone, on two request threads. A worker thread runs and is
\* asleep in its sleep loop throughout, so /schedule_posts starts no further one.
InitReg ==
    /\ registry = <<>>
    /\ history = <<>>
    /\ images = Files
    /\ uploaded = {}
    /\ stop_event = FALSE
    /\ scheduled_posts_running = TRUE
    /\ upload_running = FALSE
    /\ schedule_lock = NoThread
    /\ now = 0
    /\ http = [h \in HttpThreads |-> HttpIdle]
    /\ wk = [w \in WorkerThreads |->
                IF w = "w1" THEN [WorkerNone EXCEPT !.pc = "L284"] ELSE WorkerNone]
    /\ up = UploaderNone
    /\ budget = MaxRegistryRequests
    /\ serial = <<>>
    /\ removed = FALSE
    /\ clears = 0
    /\ attempts = [f \in Files |-> 0]
    /\ late = [t \in WorkerThreads \cup {"up"} |-> 0]
    /\ upload_message = "System ready for upload process"
    /\ DocIdle
    /\ LocksIdle

NextReg ==
    \/ \E h \in HttpThreads, f \in Files, t \in Times : schedule_posts_load(h, f, t)
    \/ \E h \in HttpThreads : schedule_posts_save(h)
    \/ \E h \in HttpThreads, f \in Files : cancel_schedule_load(h, f)
    \/ \E h \in HttpThreads : cancel_schedule_save(h)
    \/ \E h \in HttpThreads : clear_all_scheduled(h)
    \/ \E h \in HttpThreads : release_schedule_lock(h)
    \/ \E h \in HttpThreads : schedule_posts_start(h)

SpecReg == InitReg /\ [][NextReg]_vars

\* Both workers and the stop routes. Two /schedule_posts requests have been
\* served and the worker thread they started has not run yet.
InitStop ==
    /\ \E t \in Times :
          registry = add_scheduled_post(add_scheduled_post(<<>>, "a.png", 0),
                                        "b.png", t)
    /\ history = <<>>
    /\ images = Files
    /\ uploaded = {}
    /\ stop_event = FALSE
    /\ scheduled_posts_running = FALSE
    /\ upload_running = FALSE
    /\ schedule_lock = NoThread
    /\ now = 0
    /\ http = [h \in HttpThreads |-> HttpIdle]
    /\ wk = [w \in WorkerThreads |->
                IF w = "w1" THEN [WorkerNone EXCEPT !.pc = "L207"] ELSE WorkerNone]
    /\ up = UploaderNone
    /\ budget = MaxRequests
    /\ serial = registry
    /\ removed = FALSE
    /\ clears = 0
    /\ attempts = [f \in Files |-> 0]
    /\ late = [t \in WorkerThreads \cup {"up"} |-> 0]
    /\ upload_message = "System ready for upload process"
    /\ DocIdle
    /\ LocksIdle

NextStop ==
    \/ \E h \in MainHttp : stop_upload(h)
    \/ \E h \in MainHttp : stop_scheduled_monitoring(h)
    \/ start_uploader
    \/ uploader_start
    \/ uploader_login
    \/ uploader_list
    \/ uploader_stop_check
    \/ uploader_begin_upload
    \/ uploader_upload_returns
    \/ uploader_history_save
    \/ uploader_move_file
    \/ \E delay \in ShortDelays : uploader_stop_check_before_wait(delay)
    \/ \E nap \in LongNaps : uploader_wait(nap)
    \/ uploader_returns
    \/ uploader_finally
    \/ worker_start("w1")
    \/ worker_load("w1")
    \/ worker_stop_check("w1")
    \/ worker_begin_upload("w1")
    \/ worker_upload_returns("w1")
    \/ worker_history_save("w1")
    \/ worker_move_file("w1")
    \/ worker_save("w1")
    \/ worker_sleep("w1")
    \/ worker_finally("w1")
    \/ Tick

SpecStop == InitStop /\ [][NextStop]_vars

\* One worker thread and its poll cycles. Two entries have been scheduled, the
\* images folder holds any of their files, and the thread has been started. A
\* file is uploaded into the folder only while the worker sleeps between cycles.
InitCycle ==
    /\ \E ta \in Times, tb \in Times :
          registry = add_scheduled_post(add_scheduled_post(<<>>, "a.png", ta),
                                        "b.png", tb)
    /\ history = <<>>
    /\ images \in SUBSET Files
    /\ uploaded = {}
    /\ stop_event = FALSE
    /\ scheduled_posts_running = FALSE
    /\ upload_running = FALSE
    /\ schedule_lock = NoThread
    /\ now = 0
    /\ http = [h \in HttpThreads |-> HttpIdle]
    /\ wk = [w \in WorkerThreads |->
                IF w = "w1" THEN [WorkerNone EXCEPT !.pc = "L207"] ELSE WorkerNone]
    /\ up = UploaderNone
    /\ budget = MaxRequests
    /\ serial = registry
    /\ removed = FALSE
    /\ clears = 0
    /\ attempts = [f \in Files |-> 0]
    /\ late = [t \in WorkerThreads \cup {"up"} |-> 0]
    /\ upload_message = "System ready for upload process"
    /\ DocIdle
    /\ LocksIdle

NextCycle ==
    \/ \E h \in MainHttp : stop_upload(h)
    \/ \E h \in MainHttp, f \in Files : wk["w1"].pc = "L284" /\ upload_file(h, f)
    \/ worker_start("w1")
    \/ worker_load("w1")
    \/ worker_stop_check("w1")
    \/ worker_begin_upload("w1")
    \/ worker_upload_returns("w1")
    \/ worker_history_save("w1")
    \/ worker_move_file("w1")
    \/ worker_save("w1")
    \/ worker_sleep("w1")
    \/ worker_finally("w1")
    \/ Tick

SpecCycle == InitCycle /\ [][NextCycle]_vars

\* The history ledger and its writers: the scheduled-posts worker, the immediate
\* uploader and /clear_history, with the entries of InitStop scheduled.
NextLedger ==
    \/ \E h \in MainHttp : clear_history(h)
    \/ start_uploader
    \/ uploader_start
    \/ uploader_login
    \/ uploader_list
    \/ uploader_stop_check
    \/ uploader_begin_upload
    \/ uploader_upload_returns
    \/ uploader_history_save
    \/ uploader_move_file
    \/ \E delay \in ShortDelays : uploader_stop_check_before_wait(delay)
    \/ \E nap \in LongNaps : uploader_wait(nap)
    \/ uploader_returns
    \/ uploader_finally
    \/ worker_start("w1")
    \/ worker_load("w1")
    \/ worker_stop_check("w1")
    \/ worker_begin_upload("w1")
    \/ worker_upload_returns("w1")
    \/ worker_history_save("w1")
    \/ worker_move_file("w1")
    \/ worker_save("w1")
    \/ worker_sleep("w1")
    \/ worker_finally("w1")
    \/ Tick

SpecLedger == InitStop /\ [][NextLedger]_vars

\* One run of the immediate uploader with its waits, and /stop. The images folder
\* holds any of the files and the thread has been started.
InitPace ==
    /\ registry = <<>>
    /\ history = <<>>
    /\ images \in SUBSET Files
    /\ uploaded = {}
    /\ stop_event = FALSE
    /\ scheduled_posts_running = FALSE
    /\ upload_running = FALSE
    /\ schedule_lock = NoThread
    /\ now = 0
    /\ http = [h \in HttpThreads |-> HttpIdle]
    /\ wk = [w \in WorkerThreads |-> WorkerNone]
    /\ up = [UploaderNone EXCEPT !.pc = "L64"]
    /\ budget = MaxRequests
    /\ serial = <<>>
    /\ removed = FALSE
    /\ clears = 0
    /\ attempts = [f \in Files |-> 0]
    /\ late = [t \in WorkerThreads \cup {"up"} |-> 0]
    /\ upload_message = "System ready for upload process"
    /\ DocIdle
    /\ LocksIdle

NextPace ==
    \/ \E h \in MainHttp : stop_upload(h)
    \/ uploader_start
    \/ uploader_login
    \/ uploader_list
    \/ uploader_stop_check
    \/ uploader_begin_upload
    \/ uploader_upload_returns
    \/ uploader_history_save
    \/ uploader_move_file
    \/ \E delay \in Delays : uploader_stop_check_before_wait(delay)
    \/ \E nap \in Naps : uploader_wait(nap)
    \/ uploader_returns
    \/ uploader_finally

SpecPace == InitPace /\ [][NextPace]_vars

\* Every step of worker thread w: the thread's next statement, whichever it is.
worker_step(w) ==
    \/ worker_start(w)
    \/ worker_load(w)
    \/ worker_stop_check(w)
    \/ worker_begin_upload(w)
    \/ worker_upload_returns(w)
    \/ worker_history_save(w)
    \/ worker_move_file(w)
    \/ worker_save(w)
    \/ worker_sleep(w)
    \/ worker_finally(w)

\* Stop, then start. The entries of InitStop are scheduled and a worker thread has
\* been started; /stop is requested with no worker thread alive, and the start
\* requests may follow it. A thread that can take a step is scheduled in the end.
NextRestart ==
    \/ \E h \in MainHttp : FreeSlots = WorkerThreads /\ stop_upload(h)
    \/ \E h \in MainHttp : start_upload(h)
    \/ \E h \in MainHttp : start_scheduled_monitoring(h)
    \/ \E w \in WorkerThreads : worker_start(w)
    \/ \E w \in WorkerThreads : worker_load(w)
    \/ \E w \in WorkerThreads : worker_stop_check(w)
    \/ \E w \in WorkerThreads : worker_begin_upload(w)
    \/ \E w \in WorkerThreads : worker_upload_returns(w)
    \/ \E w \in WorkerThreads : worker_history_save(w)
    \/ \E w \in WorkerThreads : worker_move_file(w)
    \/ \E w \in WorkerThreads : worker_save(w)
    \/ \E w \in WorkerThreads : worker_sleep(w)
    \/ \E w \in WorkerThreads : worker_finally(w)
    \/ Tick

SpecRestart ==
    /\ InitStop
    /\ [][NextRestart]_vars
    /\ \A w \in WorkerThreads : WF_vars(worker_step(w))

\* Every step of request thread h inside /schedule_posts once the request has the lock.
schedule_posts_step(h) ==
    \/ schedule_posts_save(h)
    \/ release_schedule_lock(h)
    \/ schedule_posts_start(h)

\* A worker that runs and is never stopped, and /schedule_posts requests. a.png
\* has been scheduled and the worker thread it started is at its while test. The
\* clock moves on, a request that has begun is served to its end, and the worker
\* thread is scheduled whenever it can take a step.
InitLive ==
    /\ registry = add_scheduled_post(<<>>, "a.png", 0)
    /\ history = <<>>
    /\ images = Files
    /\ uploaded = {}
    /\ stop_event = FALSE
    /\ scheduled_posts_running = TRUE
    /\ upload_running = FALSE
    /\ schedule_lock = NoThread
    /\ now = 0
    /\ http = [h \in HttpThreads |-> HttpIdle]
    /\ wk = [w \in WorkerThreads |->
                IF w = "w1" THEN [WorkerNone EXCEPT !.pc = "L220"] ELSE WorkerNone]
    /\ up = UploaderNone
    /\ budget = MaxRequests
    /\ serial = registry
    /\ removed = FALSE
    /\ clears = 0
    /\ attempts = [f \in Files |-> 0]
    /\ late = [t \in WorkerThreads \cup {"up"} |-> 0]
    /\ upload_message = "System ready for upload process"
    /\ DocIdle
    /\ LocksIdle

NextLive ==
    \/ \E h \in MainHttp, f \in Files, t \in Times : schedule_posts_load(h, f, t)
    \/ \E h \in MainHttp : schedule_posts_save(h)
    \/ \E h \in MainHttp : release_schedule_lock(h)
    \/ \E h \in MainHttp : schedule_posts_start(h)
    \/ worker_load("w1")
    \/ worker_stop_check("w1")
    \/ worker_begin_upload("w1")
    \/ worker_upload_returns("w1")
    \/ worker_history_save("w1")
    \/ worker_move_file("w1")
    \/ worker_save("w1")
    \/ worker_sleep("w1")
    \/ Tick

SpecLive ==
    /\ InitLive
    /\ [][NextLive]_vars
    /\ WF_vars(worker_step("w1"))
    /\ \A h \in MainHttp : WF_vars(schedule_posts_step(h))
    /\ WF_vars(Tick)

\* The document store alone: one path, holding at first any of the contents a
\* file of its kind can have, one thread saving and one loading.
ListContents ==
    {Missing, Text(<<"[">>), Token(<<"[">>, "k1")}
        \cup {Text(json_dumps(x)) : x \in Docs}
        \cup {Token(json_dumps(x), k) : x \in Docs, k \in {"k1", "k2"}}

ConfigContents ==
    {Missing, Text(<<"{">>), Token(<<"{", "user", "user", "}">>, "k1")}
        \cup {Text(<<"{", u, pw, "}">>) : u \in FieldValues, pw \in FieldValues}

InitDoc ==
    /\ registry = <<>>
    /\ history = <<>>
    /\ images = Files
    /\ uploaded = {}
    /\ stop_event = FALSE
    /\ scheduled_posts_running = FALSE
    /\ upload_running = FALSE
    /\ schedule_lock = NoThread
    /\ now = 0
    /\ http = [h \in HttpThreads |-> HttpIdle]
    /\ wk = [w \in WorkerThreads |-> WorkerNone]
    /\ up = UploaderNone
    /\ budget = MaxDocOps
    /\ serial = <<>>
    /\ removed = FALSE
    /\ clears = 0
    /\ attempts = [f \in Files |-> 0]
    /\ late = [t \in WorkerThreads \cup {"up"} |-> 0]
    /\ upload_message = "System ready for upload process"
    /\ key \in ProcessKeys
    /\ \/ \E path \in {"upload_history.json", "scheduled_posts.json"}, c \in ListContents :
             disk = [path |-> path, content |-> c]
       \/ \E c \in ConfigContents : disk = [path |-> "config.json", content |-> c]
    /\ saver = SaverIdle
    /\ loader = LoaderIdle
    /\ LocksIdle

NextDoc ==
    \/ \E x \in Docs : save_begin(x)
    \/ save_open
    \/ save_dump
    \/ save_encrypt
    \/ save_encrypt_open
    \/ save_encrypt_write
    \/ load_begin
    \/ load_sealed
    \/ load_plain
    \/ decrypt_config_file

SpecDoc == InitDoc /\ [][NextDoc]_vars

\* The code paths interleaved statement by statement, over the locks alone.
NextLocks ==
    \/ \E t \in LockThreads, path \in HttpPaths \cup {"run_scheduled_posts_thread",
                                                      "run_uploader_thread"} :
          lock_begin(t, path)
    \/ \E t \in LockThreads : lock_step(t)

SpecLocks == Init /\ [][NextLocks]_vars

\* ------------------------------------------------------------------- claims
\* The step in which worker w writes its copy of the list to the registry (L271).
WorkerPersists(w) ==
    /\ wk[w].pc = "L270"
    /\ wk[w].processed > 0
    /\ wk'[w].pc # "L270"

\* C1: no registry update of the HTTP layer is lost to the worker. The registry
\* holds every add, remove and clear completed since the worker's load, so the
\* worker's persist must leave the set of scheduled filenames as it finds it: an
\* added entry stays, a removed or cleared entry stays away.
C1_NoRequestLost ==
    [][\A w \in WorkerThreads :
          WorkerPersists(w) => Filenames(registry') = Filenames(registry)]_vars

\* A request thread between its load and the end of its `with schedule_lock:` block.
InLockedBlock(h) == http[h].pc \in {"locked", "saved"}

\* C2: concurrent add and remove requests serialize. Each request's load, change
\* and save run with schedule_lock held by its thread, and the registry is at all
\* times what the requests give when applied one at a time, each in one piece, in
\* the order of their saves: no update is lost.
C2_RequestsSerialize ==
    /\ registry = serial
    /\ \A h \in HttpThreads : InLockedBlock(h) => schedule_lock = h

\* An add has saved under the lock, after a remove, while the other thread is
\* still inside its own /schedule_posts request.
C2_Witness ==
    \E h \in HttpThreads, g \in HttpThreads :
        /\ h # g
        /\ http[h].pc = "saved"
        /\ http[h].route = "schedule_posts"
        /\ http[g].pc = "L574"
        /\ removed
        /\ Len(registry) = 2

\* C3: an append to the history is one atomic read-modify-write. Every save made
\* by an append leaves the ledger it finds in place and adds one entry to it, so
\* no entry of a concurrent append is lost.
C3_AppendKeepsEntries ==
    [][history' # history =>
          /\ Len(history') = Len(history) + 1
          /\ SubSeq(history', 1, Len(history)) = history]_vars

\* C4: a scheduled entry's outcome is terminal. Once the worker has begun an
\* upload for a filename, no upload is begun for it again unless an add has
\* scheduled it anew.
C4_OutcomeTerminal == \A f \in Files : attempts[f] <= 1

\* The worker is inside the body of its for loop (L232-267).
InCycle(w) == wk[w].pc \in {"L235", "L241", "L242", "L65", "L249"}

\* C5: the worker publishes only due items. In a poll cycle an upload is begun,
\* and a status is changed, only for an entry that is pending in the loaded list
\* and whose scheduled_time is not after the cycle's current_time; the other
\* entries keep their status.
C5_OnlyDueItems ==
    [][\A w \in WorkerThreads :
          /\ (wk[w].pc # "L242" /\ wk'[w].pc = "L242") =>
                 /\ wk[w].posts[wk[w].idx].status = "pending"
                 /\ wk[w].posts[wk[w].idx].scheduled_time <= wk[w].cur
          /\ (InCycle(w) /\ wk'[w].pc \in {"L235", "L241", "L242", "L65", "L249", "L270"}) =>
                 \A i \in 1..Len(wk[w].posts) :
                     wk'[w].posts[i].status # wk[w].posts[i].status =>
                         /\ wk[w].posts[i].status = "pending"
                         /\ wk[w].posts[i].scheduled_time <= wk[w].cur]_vars

\* An upload is in progress for one entry while the worker's list holds another
\* that is not pending or is due later.
C5_Witness ==
    \E w \in WorkerThreads :
        /\ wk[w].pc = "L242"
        /\ \E i \in 1..Len(wk[w].posts) :
              /\ i # wk[w].idx
              /\ \/ wk[w].posts[i].status # "pending"
                 \/ wk[w].posts[i].scheduled_time > wk[w].cur

\* C6: the registry holds at most one entry per filename; after add(f, t) the one
\* entry for f has scheduled_time t and status pending.
C6_OneEntryPerFilename ==
    /\ \A i \in 1..Len(registry), j \in 1..Len(registry) :
          i # j => registry[i].filename # registry[j].filename
    /\ \A h \in HttpThreads :
          (http[h].pc = "saved" /\ http[h].route = "schedule_posts") =>
              /\ Cardinality({i \in 1..Len(registry) :
                                 registry[i].filename = http[h].filename}) = 1
              /\ \A i \in 1..Len(registry) :
                    registry[i].filename = http[h].filename =>
                        /\ registry[i].scheduled_time = http[h].scheduled_time
                        /\ registry[i].status = "pending"

\* An add has saved for a filename that the worker had brought to a final status.
C6_Witness ==
    \E h \in HttpThreads :
        /\ http[h].pc = "saved"
        /\ http[h].route = "schedule_posts"
        /\ \E i \in 1..Len(http[h].local) :
              /\ http[h].local[i].filename = http[h].filename
              /\ http[h].local[i].status # "pending"

\* The positions of `posts` whose entry is not for `filename`.
KeptPositions(posts, filename) ==
    {i \in 1..Len(posts) : posts[i].filename # filename}

\* The n-th of these positions.
KeptPosition(posts, filename, n) ==
    CHOOSE i \in KeptPositions(posts, filename) :
        Cardinality({j \in KeptPositions(posts, filename) : j <= i}) = n

\* C7: add for a new filename appends one pending entry with id = count + 1 and
\* leaves the others as they are; add for a present filename changes only that
\* entry's scheduled_time and status. While no remove has been made, every
\* entry's id is its position (so ids are distinct).
C7_AddAppendsOrUpdates ==
    /\ \A h \in HttpThreads :
          (http[h].pc = "saved" /\ http[h].route = "schedule_posts") =>
              LET before == http[h].local
                  f == http[h].filename
                  t == http[h].scheduled_time
              IN IF \A i \in 1..Len(before) : before[i].filename # f
                 THEN /\ Len(registry) = Len(before) + 1
                      /\ \A i \in 1..Len(before) : registry[i] = before[i]
                      /\ registry[Len(registry)] =
                             [filename |-> f, scheduled_time |-> t,
                              status |-> "pending", id |-> Len(before) + 1]
                 ELSE /\ Len(registry) = Len(before)
                      /\ \A i \in 1..Len(before) :
                            /\ registry[i].filename = before[i].filename
                            /\ registry[i].id = before[i].id
                            /\ before[i].filename # f => registry[i] = before[i]
                            /\ before[i].filename = f =>
                                   /\ registry[i].scheduled_time = t
                                   /\ registry[i].status = "pending"
    /\ ~removed => \A i \in 1..Len(registry) : registry[i].id = i

\* After a remove and a later add, two entries carry the same id.
C7_Witness ==
    /\ removed
    /\ \E i \in 1..Len(registry), j \in 1..Len(registry) :
          i # j /\ registry[i].id = registry[j].id

\* C8: remove(filename) deletes every entry with that filename and keeps the other
\* entries in their order; with the filename absent the registry is left as it was.
C8_RemoveFilters ==
    \A h \in HttpThreads :
        (http[h].pc = "saved" /\ http[h].route = "cancel_schedule") =>
            LET before == http[h].local
                f == http[h].filename
            IN /\ \A i \in 1..Len(registry) : registry[i].filename # f
               /\ Len(registry) = Cardinality(KeptPositions(before, f))
               /\ \A n \in 1..Len(registry) :
                     registry[n] = before[KeptPosition(before, f, n)]
               /\ (\A i \in 1..Len(before) : before[i].filename # f) =>
                      registry = before

\* A remove of an absent filename has saved and left a registry with entries; a
\* remove has taken an entry away before.
C8_Witness ==
    \E h \in HttpThreads :
        /\ http[h].pc = "saved"
        /\ http[h].route = "cancel_schedule"
        /\ http[h].local # <<>>
        /\ \A i \in 1..Len(http[h].local) : http[h].local[i].filename # http[h].filename
        /\ registry = http[h].local

\* C9: the registry is empty after a clearAll, and empty again after a second one
\* that follows it.
C9_ClearIdempotent ==
    /\ clears > 0 => registry = <<>>
    /\ \A h \in HttpThreads :
          (http[h].pc = "saved" /\ http[h].route = "clear_all_scheduled") =>
              registry = <<>>

\* A second clearAll has saved right after a first.
C9_Witness ==
    /\ clears = 2
    /\ \E h \in HttpThreads :
          http[h].pc = "saved" /\ http[h].route = "clear_all_scheduled"

\* C10 as stated: once the stop request has set the cancellation signal, neither
\* worker begins an upload call.
C10_NoUploadBeginsAfterStop ==
    [][stop_event =>
          /\ \A w \in WorkerThreads : ~(wk[w].pc # "L242" /\ wk'[w].pc = "L242")
          /\ ~(up.pc # "L160" /\ up'.pc = "L160")]_vars

\* C10, amended: once the signal is set no worker passes one of its stop checks
\* towards an upload, and each worker thread begins at most one more upload call,
\* the one whose check it had passed before the signal was set.
C10_StopChecksHold ==
    /\ [](\A t \in WorkerThreads \cup {"up"} : late[t] <= 1)
    /\ [][stop_event =>
             /\ \A w \in WorkerThreads :
                   /\ ~(wk[w].pc = "L235" /\ wk'[w].pc = "L241")
                   /\ ~(wk[w].pc = "L220" /\ wk'[w].pc \in {"L235", "L270"})
             /\ ~(up.pc = "L154" /\ up'.pc = "L158")
             /\ ~(up.pc = "L95" /\ up'.pc \in {"L144", "L106"})]_vars

\* The signal was set after the worker's check of L235: the worker began that one
\* upload, and has stopped at the check for the next entry, which is still due.
C10_Witness ==
    /\ stop_event
    /\ late["w1"] = 1
    /\ wk["w1"].pc = "L294"
    /\ \A i \in 1..Len(registry) :
          registry[i].status = "pending" /\ registry[i].scheduled_time <= now

\* The path holds a history or schedule document.
ListPath == disk.path \in {"upload_history.json", "scheduled_posts.json"}

\* A load has returned, and each of its reads found the file as it was when the
\* load began.
LoadedQuietly == loader.pc = "done" /\ ~loader.disturbed

ParsesPlain(content) == content.form = "text" /\ json_loads(content.body).ok

C20_SaveAtomic ==
    (ListPath /\ loader.pc = "done") => loader.result \in loader.allowed

\* C11: cancellation during a sleep takes effect at the next checkpoint. With the
\* signal set, the next step of a scheduled worker in its sleep loop ends the
\* thread's loop without a further sleep (at the check of L285, or, when the
\* last sleep of the loop was under way, at the while test of L220), and the next
\* step of the uploader in its wait loop leaves the loop (at the check of L189,
\* or, when the delay ran out, at the check of L154); neither reads the registry
\* or begins an upload on the way.
C11_SleepCancelled ==
    [][stop_event =>
          /\ \A w \in WorkerThreads :
                /\ (wk[w].pc = "L284" /\ wk'[w] # wk[w]) =>
                       \/ wk'[w].pc = "L294"
                       \/ /\ wk[w].k * sleep_interval >= sleep_time
                          /\ wk'[w].pc = "L220"
                /\ (wk[w].pc = "L220" /\ wk'[w] # wk[w]) => wk'[w].pc = "L294"
          /\ (up.pc = "L187" /\ up' # up) => up'.pc \in {"L106", "L154"}
          /\ (up.pc = "L154" /\ up' # up) => up'.pc = "L106"]_vars

\* The signal was set while the worker was in its sleep loop and the uploader in
\* its wait loop: both have stopped at their next check.
C11_Witness ==
    /\ stop_event
    /\ wk["w1"].pc = "L294"
    /\ wk["w1"].k \in 1..11
    /\ up.pc = "L106"
    /\ up.log = "Stop requested during wait period. Terminating upload process."

\* The last entry of the history is for this filename with this status.
LastEntryIs(hist, filename, status) ==
    /\ hist # <<>>
    /\ hist[Len(hist)].filename = filename
    /\ hist[Len(hist)].status = status

\* C12: a publish call that returns success is recorded as a success by the worker
\* that issued it, whether or not the signal is set meanwhile. The return of the
\* upload call leads to the append and nowhere else, and the append of a
\* successful upload writes the success entry for the file; only after it does the
\* worker come to a stop check.
C12_SuccessRecorded ==
    [][/\ \A w \in WorkerThreads :
             /\ (wk[w].pc = "L242" /\ wk'[w] # wk[w]) => wk'[w].pc = "L65"
             /\ (wk[w].pc = "L65" /\ wk[w].ok /\ wk'[w] # wk[w]) =>
                    /\ LastEntryIs(history', wk[w].posts[wk[w].idx].filename,
                                   "SUCCESS (Scheduled)")
                    /\ wk'[w].pc = "L249"
       /\ (up.pc = "L160" /\ up' # up) => up'.pc = "L65"
       /\ (up.pc = "L65" /\ up.ok /\ up' # up) =>
              /\ LastEntryIs(history', up.files[up.i], "SUCCESS")
              /\ up'.pc = "L169"]_vars

\* With the signal set before the upload call began, the call has returned success
\* and the worker has appended the success entry; it has not come to a stop check
\* yet.
C12_Witness ==
    /\ stop_event
    /\ late["w1"] = 1
    /\ wk["w1"].pc = "L249"
    /\ LastEntryIs(history, wk["w1"].posts[wk["w1"].idx].filename, "SUCCESS (Scheduled)")

\* How many entries of the history are for this filename with this status.
Entries(hist, filename, status) ==
    Cardinality({n \in 1..Len(hist) :
                    hist[n].filename = filename /\ hist[n].status = status})

\* The step that ends worker w's cycle (L269-277).
CycleEnds(w) == wk[w].pc = "L270" /\ wk'[w].pc # "L270"

\* C13: one uncancelled poll cycle on a pending, due entry whose file exists and
\* whose publish succeeds. Before the entry's turn the ledger has no success entry
\* for the file; a successful publish is followed by the append of the entry
\* "SUCCESS (Scheduled)" and then by the move of the file and the status posted;
\* and the cycle, which leaves no due entry out, ends by persisting posted for
\* each entry it has posted (pending in the registry, posted in the worker's
\* list), with exactly one success entry in the ledger for the file, the file
\* gone from the images folder and present in the uploaded folder.
C13_CyclePosts ==
    /\ [](\A w \in WorkerThreads :
             wk[w].pc \in {"L235", "L241", "L242"} =>
                 Entries(history, wk[w].posts[wk[w].idx].filename,
                         "SUCCESS (Scheduled)") = 0)
    /\ [][\A w \in WorkerThreads :
             LET f == wk[w].posts[wk[w].idx].filename
             IN /\ (wk[w].pc = "L65" /\ wk[w].ok /\ wk'[w] # wk[w]) =>
                       /\ wk'[w].pc = "L249"
                       /\ history' = Append(history,
                                            history_entry(history, f, "SUCCESS (Scheduled)"))
                /\ (wk[w].pc = "L249" /\ wk'[w] # wk[w]) =>
                       /\ wk'[w].posts[wk[w].idx].status = "posted"
                       /\ f \notin images'
                       /\ f \in uploaded'
                /\ (CycleEnds(w) /\ ~stop_event) =>
                       \A i \in 1..Len(wk[w].posts) :
                           /\ ~IsDue(wk[w].posts[i], wk[w].cur)
                           /\ (registry[i].status = "pending"
                                  /\ wk[w].posts[i].status = "posted") =>
                                  /\ registry'[i].filename = wk[w].posts[i].filename
                                  /\ registry'[i].status = "posted"
                                  /\ Entries(history', wk[w].posts[i].filename,
                                             "SUCCESS (Scheduled)") = 1
                                  /\ wk[w].posts[i].filename \notin images'
                                  /\ wk[w].posts[i].filename \in uploaded']_vars

\* A cycle that published a.png has ended uncancelled: the registry says posted,
\* the ledger holds the one success entry, and the file has moved.
C13_Witness ==
    /\ ~stop_event
    /\ wk["w1"].pc = "L284"
    /\ registry[1].status = "posted"
    /\ registry[2].status = "pending"
    /\ history = <<[filename |-> "a.png", status |-> "SUCCESS (Scheduled)", id |-> 1]>>
    /\ "a.png" \notin images
    /\ "a.png" \in uploaded

\* The registry entry for this filename has the status 'error: file not found'.
FileNotFound(posts, filename) ==
    \E i \in 1..Len(posts) :
        posts[i].filename = filename /\ posts[i].status = "error: file not found"

\* C17: a due entry whose file is missing becomes 'error: file not found' in that
\* cycle with no upload call, and the worker goes on to the next due entry, or to
\* the end of the cycle when there is none. Once persisted the status stays, and
\* no upload call is begun for the entry in a later cycle, file or no file.
C17_MissingFileTerminal ==
    [][\A w \in WorkerThreads :
          /\ (wk[w].pc = "L241" /\ wk'[w] # wk[w]
                 /\ wk[w].posts[wk[w].idx].filename \notin images) =>
                 /\ wk'[w].posts[wk[w].idx].status = "error: file not found"
                 /\ attempts' = attempts
                 /\ wk'[w].pc \in {"L235", "L270"}
                 /\ \A j \in (wk[w].idx + 1)..Len(wk[w].posts) :
                       IsDue(wk[w].posts[j], wk[w].cur) =>
                           wk'[w].pc = "L235" /\ wk'[w].idx <= j
          /\ (wk[w].pc = "L241" /\ wk'[w].pc = "L242") =>
                 ~FileNotFound(registry, wk[w].posts[wk[w].idx].filename)
          /\ \A f \in Files : FileNotFound(registry, f) => FileNotFound(registry', f)]_vars

\* The entry for a.png was persisted as 'error: file not found' in an earlier
\* cycle; the file has appeared since, and the worker, in a later cycle, has left
\* the entry alone and is publishing b.png.
C17_Witness ==
    /\ FileNotFound(registry, "a.png")
    /\ "a.png" \in images
    /\ wk["w1"].pc = "L242"
    /\ wk["w1"].idx = 2
    /\ FileNotFound(wk["w1"].posts, "a.png")
    /\ attempts["a.png"] = 0

\* The messages that report an error of the run.
ErrorMessages ==
    {"Configuration file missing", "Invalid credentials in configuration",
     "Configuration load error", "Process error"}

C15_AuthFailureFatal ==
    (up.log = "FATAL: Could not log in to Instagram." /\ up.pc = "L117") =>
        /\ upload_message # "Upload process completed successfully"
        /\ up.calls = 0
        /\ up.appended = 0
        /\ up.files = <<>>

\* C16: a publish failure does not abort the run. The worker that gets the failure
\* appends the entry with the error status, leaves the file where it is, and goes
\* on: the scheduled worker to the next due entry of its cycle (or the end of the
\* cycle), the uploader, unless the signal is set, through its delay to the next
\* file of the run.
C16_FailureDoesNotAbort ==
    [][/\ \A w \in WorkerThreads :
             (wk[w].pc = "L65" /\ ~wk[w].ok /\ wk'[w] # wk[w]) =>
                 /\ LastEntryIs(history', wk[w].posts[wk[w].idx].filename,
                                "ERROR (Scheduled): ERROR: upload failed")
                 /\ images' = images
                 /\ uploaded' = uploaded
                 /\ wk'[w].posts[wk[w].idx].status = "error: ERROR: upload failed"
                 /\ wk'[w].pc \in {"L235", "L270"}
                 /\ \A j \in (wk[w].idx + 1)..Len(wk[w].posts) :
                       IsDue(wk[w].posts[j], wk[w].cur) =>
                           wk'[w].pc = "L235" /\ wk'[w].idx <= j
       /\ (up.pc = "L65" /\ ~up.ok /\ up' # up) =>
              /\ LastEntryIs(history', up.files[up.i], "ERROR: upload failed")
              /\ images' = images
              /\ uploaded' = uploaded
              /\ up'.pc = "L177"
       /\ (up.pc = "L177" /\ ~stop_event /\ up' # up) => up'.pc = "L187"
       /\ (up.pc = "L187" /\ ~stop_event /\ up' # up) =>
              IF up'.pc = "L187"
              THEN up'.slept > up.slept
              ELSE IF up.i < Len(up.files)
              THEN up'.pc = "L154" /\ up'.i = up.i + 1
              ELSE up'.pc = "L106"
       /\ (up.pc = "L154" /\ ~stop_event /\ up' # up) => up'.pc = "L158"]_vars

\* Each worker has had a publish failure for its first item, has recorded it, and
\* is publishing its second item with the first file still in the images folder.
C16_Witness ==
    /\ wk["w1"].pc = "L242"
    /\ wk["w1"].idx = 2
    /\ wk["w1"].posts[1].status = "error: ERROR: upload failed"
    /\ up.pc = "L160"
    /\ up.i = 2
    /\ up.files[1] \in images
    /\ Entries(history, up.files[1], "ERROR: upload failed") = 1
    /\ Entries(history, wk["w1"].posts[1].filename,
               "ERROR (Scheduled): ERROR: upload failed") = 1

\* The step in which the scheduled worker w saves the ledger (uploader.py L64-65).
WorkerAppends(w) ==
    /\ wk[w].pc = "L65"
    /\ wk'[w].pc # "L65"

\* The step in which the immediate uploader saves the ledger (uploader.py L64-65).
UploaderAppends ==
    /\ up.pc = "L65"
    /\ up'.pc # "L65"

\* The ledger after an append to the ledger found in place: the old entries where
\* they were, and one entry for this file after them, numbered count + 1.
AppendedTo(old, new, filename) ==
    /\ Len(new) = Len(old) + 1
    /\ SubSeq(new, 1, Len(old)) = old
    /\ new[Len(new)].filename = filename
    /\ new[Len(new)].id = Len(old) + 1

\* C21: the ledger is append-only for workers. An append with no ledger write
\* between its load and its save (what it loaded is what the file holds) leaves
\* every earlier entry in place and adds one entry at the end with id = count + 1;
\* no other step of a worker writes the ledger, and the only other write is the
\* clear of /clear_history.
C21_AppendOnly ==
    [][/\ \A w \in WorkerThreads :
              WorkerAppends(w) /\ wk[w].hist = history
                  => AppendedTo(history, history', wk[w].posts[wk[w].idx].filename)
       /\ UploaderAppends /\ up.hist = history
              => AppendedTo(history, history', up.files[up.i])
       /\ history' # history
              => \/ \E w \in WorkerThreads : WorkerAppends(w)
                 \/ UploaderAppends
                 \/ \E h \in MainHttp : clear_history(h)]_vars

\* Both workers have appended, one after the other, with no clear since.
C21_Witness ==
    /\ Len(history) = 2
    /\ history[1].id = 1
    /\ history[2].id = 2
    /\ history[1].status = "SUCCESS (Scheduled)"
    /\ history[2].status = "SUCCESS"
    /\ budget = MaxRequests - 1

\* C22: the worker persists the registry at most once per poll cycle. Its only
\* write is the one that ends the cycle (L270-271): it is made when no entry of
\* the loaded list is due any more and some entry's status differs from the
\* registry's, it writes the worker's list, and the worker goes on to the sleep
\* or to its end. A cycle that found no due entry, or changed no status, ends
\* without a write, and no step between two upload calls of a cycle writes.
C22_BatchedWrite ==
    [][/\ registry' # registry => \E w \in WorkerThreads : WorkerPersists(w)
       /\ \A w \in WorkerThreads :
             /\ WorkerPersists(w) =>
                    /\ \A i \in 1..Len(wk[w].posts) : ~IsDue(wk[w].posts[i], wk[w].cur)
                    /\ \E i \in 1..Len(wk[w].posts) :
                           wk[w].posts[i].status # registry[i].status
                    /\ registry' = wk[w].posts
                    /\ wk'[w].pc \in {"L284", "L294"}
             /\ (wk[w].pc = "L220" /\ wk'[w].pc = "L270") => wk'[w].processed = 0
             /\ (CycleEnds(w) /\ wk[w].posts = registry) =>
                    /\ ~WorkerPersists(w)
                    /\ registry' = registry
             /\ InCycle(w) => registry' = registry]_vars

\* Both entries have been handled in one cycle, with an upload call each, and the
\* registry still holds them as pending: the one write of the cycle comes next.
C22_Witness ==
    /\ wk["w1"].pc = "L270"
    /\ wk["w1"].processed = 2
    /\ attempts["a.png"] = 1
    /\ attempts["b.png"] = 1
    /\ \A i \in 1..2 : registry[i].status = "pending"

\* The run's list is in ascending order of name, without repeats.
InNameOrder(files) ==
    \A m \in 1..Len(files), n \in 1..Len(files) : m < n => Rank(files[m]) < Rank(files[n])

C24_Pacing ==
    /\ [](/\ up.pc = "L187" => up.delay \in delay_min..delay_max
          /\ (up.pc \in {"L154", "L158"} /\ up.calls >= 1) =>
                 /\ up.delay \in delay_min..delay_max
                 /\ up.slept >= up.delay)
    /\ [][/\ (up.pc = "L177" /\ up'.pc = "L187") => up'.slept = 0
          /\ (up.calls >= 1 /\ up'.calls = up.calls + 1) =>
                 /\ up.pc = "L158"
                 /\ up.slept >= up.delay
          /\ (up.pc # "L154" /\ up'.pc = "L154" /\ up.calls >= 1) => up.pc = "L187"
          /\ (up.pc = "L187" /\ up'.pc # "L187" /\ up.slept < up.delay) =>
                 /\ stop_event
                 /\ up'.pc = "L106"
          /\ up.pc \in {"L106", "L117"} =>
                 /\ up'.pc \in {"L106", "L117", "none"}
                 /\ up'.calls \in {up.calls, 0}]_vars

\* The second upload call of a run has begun, after a wait of 600 seconds that
\* ran its full length in passes of one second.
C24_Witness ==
    /\ up.pc = "L160"
    /\ up.calls = 2
    /\ up.delay = 600
    /\ up.slept = 600
    /\ ~stop_event

\* The `with status_lock:` blocks of instagram_webui.py, each by its first and
\* its last line.
StatusLockBlocks ==
    {<<56, 57>>, <<64, 66>>, <<72, 74>>, <<83, 85>>, <<89, 91>>, <<97, 99>>,
     <<107, 108>>, <<112, 113>>, <<116, 117>>, <<301, 302>>, <<399, 404>>,
     <<412, 413>>, <<474, 475>>}

\* The statement at this line runs with status_lock held.
HoldsStatusLock(line) ==
    \E block \in StatusLockBlocks : block[1] <= line /\ line <= block[2]

\* The line at which the next step of a scheduled worker thread reads or writes
\* scheduled_posts_running, 0 when it does neither.
WorkerFlagLine(pc) ==
    CASE pc = "L207" -> 207
      [] pc = "L220" -> 220
      [] pc = "L284" -> 285
      [] pc = "L294" -> 294
      [] OTHER -> 0

\* The line at which the next step of the uploader thread writes
\* upload_status["running"], 0 when it does not.
UploaderFlagLine(pc) ==
    CASE pc = "L64" -> 65
      [] pc = "L95" -> 98
      [] pc = "L117" -> 117
      [] OTHER -> 0

\* The line at which the next step of a request thread reads scheduled_posts_running.
HttpFlagLine(pc) ==
    CASE pc = "L574" -> 574
      [] OTHER -> 0

\* C25: every read and write of the two busy flags is made with status_lock held.
\* Whenever the next statement of a thread reads or writes scheduled_posts_running
\* or upload_status["running"], that statement lies inside a `with status_lock:`
\* block.
C25_FlagsUnderStatusLock ==
    /\ \A w \in WorkerThreads :
           WorkerFlagLine(wk[w].pc) # 0 => HoldsStatusLock(WorkerFlagLine(wk[w].pc))
    /\ UploaderFlagLine(up.pc) # 0 => HoldsStatusLock(UploaderFlagLine(up.pc))
    /\ \A h \in HttpThreads :
           HttpFlagLine(http[h].pc) # 0 => HoldsStatusLock(HttpFlagLine(http[h].pc))

\* Worker thread w is inside the while loop of L220-288.
InPollingLoop(w) ==
    wk[w].pc \in {"L220", "L235", "L241", "L242", "L65", "L249", "L270", "L284"}

\* C26: at most one scheduled-posts worker thread is active at any time. No two
\* worker threads are inside their polling loop together.
C26_OneWorkerThread ==
    Cardinality({w \in WorkerThreads : InPollingLoop(w)}) <= 1

\* C27: the scheduled worker can be started again after a stop. A worker thread
\* started after a /stop request that has logged in and comes to its loop, with
\* the first entry of the registry pending and due and its file in the folder,
\* makes in the end the upload call for that entry.
C27_RestartPublishes ==
    \A w \in WorkerThreads :
        (/\ stop_event
         /\ wk[w].pc = "L220"
         /\ IsDue(registry[1], now)
         /\ registry[1].filename \in images)
            ~> (attempts[registry[1].filename] >= 1)

\* The persisted registry holds an entry for this filename that is pending.
PendingInRegistry(filename) ==
    \E i \in 1..Len(registry) :
        registry[i].filename = filename /\ registry[i].status = "pending"

\* The persisted registry holds an entry for this filename that is posted or in error.
TerminalInRegistry(filename) ==
    \E i \in 1..Len(registry) :
        registry[i].filename = filename /\ registry[i].status # "pending"

\* C28: with a worker running, no stop, no remove and no clear, every entry that
\* an add has put into the registry comes in the end to a terminal status in the
\* persisted registry.
C28_ScheduledEventuallyTerminal ==
    \A f \in Files : PendingInRegistry(f) ~> TerminalInRegistry(f)

\* C29: a published status is durable. Once the worker thread has ended, every
\* registry entry whose file it has published (the ledger holds the success entry
\* of the scheduled worker for it) has the status posted in the registry.
C29_PostedDurable ==
    (\A w \in WorkerThreads : wk[w].pc = "none") =>
        \A i \in 1..Len(registry) :
            Entries(history, registry[i].filename, "SUCCESS (Scheduled)") >= 1
                => registry[i].status = "posted"

\* C30: after /stop_scheduled_monitoring has answered with success, and with no
\* start request after it, the worker begins no further upload call, not even
\* for the due entries that are left in the cycle in progress. With the flag
\* cleared by the request (and the event not set), a worker that comes to the
\* next due entry of its cycle (L235) does not go on to upload it.
C30_StopMonitoringEndsCycle ==
    [][\A w \in WorkerThreads :
          (/\ ~scheduled_posts_running
           /\ ~stop_event
           /\ wk[w].pc = "L235")
              => wk'[w].pc # "L241"]_vars

\* The step of a /stop request that is answered with the error "Upload process
\* is not currently running" (L400-401): upload_status["running"] is False.
StopAnswersError(h) ==
    /\ stop_upload(h)
    /\ ~upload_running

\* C31: a /stop request that is answered with the error "Upload process is not
\* currently running" has no effect on worker state: the event, the
\* scheduled_posts_running flag and the worker threads are after the request
\* what they were before it.
C31_RefusedStopHasNoEffect ==
    [][\A h \in HttpThreads :
          StopAnswersError(h) =>
              /\ stop_event' = stop_event
              /\ scheduled_posts_running' = scheduled_posts_running
              /\ wk' = wk
              /\ up' = up]_vars

\* C32: in every reachable state the holder of status_lock is at neither a document
\* load or save nor an acquire of schedule_lock, no thread is at an acquire of a
\* lock it holds, the holder of status_lock can always run its next statement (so
\* a status or log snapshot waits for nothing but such a holder), and whenever a
\* thread is inside a code path some thread can run a statement.
C32_LockDiscipline ==
    /\ \A t \in LockThreads :
          status_lock = t =>
              /\ Busy(t)
              /\ ~IsDocOp(CurrentOp(t))
              /\ CurrentOp(t) # Acquire("schedule_lock")
              /\ CanStep(t)
    /\ \A t \in LockThreads :
          (Busy(t) /\ CurrentOp(t)[1] = "acquire") => Holder(CurrentOp(t)[2]) # t
    /\ (\E t \in LockThreads : Busy(t)) => \E t \in LockThreads : CanStep(t)

\* A status snapshot holds status_lock while another thread is inside its registry
\* save under schedule_lock.
C32_Witness ==
    \E t, u \in LockThreads :
        /\ schedule_lock = t
        /\ Busy(t)
        /\ CurrentOp(t) = Save("scheduled_posts.json")
        /\ status_lock = u
        /\ lk[u].path = "get_status"

\* The ledger holds a success entry for the file.
HasSuccessEntry(filename) ==
    \E i \in 1..Len(history) :
        /\ history[i].filename = filename
        /\ history[i].status \in {"SUCCESS", "SUCCESS (Scheduled)"}

\* C33: with no ledger clear, in every reachable state each file that a worker has
\* moved to the uploaded directory has a success entry in the ledger.
C33_MovedHasSuccessEntry ==
    \A filename \in uploaded : HasSuccessEntry(filename)

====
